---- MODULE Spec2Model ----
(***************************************************************************)
(* Model of the document-consolidation pipeline: tournament scoring,       *)
(* section-level diff extraction, content integration and verification.    *)
(*                                                                         *)
(* Text is modelled at character level: a Python str is a sequence of      *)
(* one-character strings, "\n" being the line separator.  Every operator   *)
(* below is a transcription of the Python function of the same name.       *)
(***************************************************************************)
EXTENDS Integers, Sequences, FiniteSets, TLC

VARIABLES
    settings,   \* the process-wide configuration object (config/settings.py)
    vfile,      \* verifier: file stored at the path handed to verify_document
    vresult,    \* verifier: outcome of verify_document
    pc,         \* "call" before the modelled operation ran, "done" after it
    fus_champion,   \* find_unique_sections: its first argument
    fus_other,      \* find_unique_sections: its second argument
    fus_result,     \* find_unique_sections: the list it returns
    repo,           \* the repository: what is stored at each path
    int_data,       \* integrate_document: the improvement data of the family
    int_result,     \* integrate_document: how the call ended
    tournament_out,  \* batch: the dict handed to run_extraction
    extraction,     \* batch: how run_extraction ended
    integration,    \* batch: how run_integration ended
    faults,   \* batch: which repository writes fail
    cohort,         \* tournament: the versions of one family, in dict order
    tournament      \* tournament: how run_tournament ended

verifier_vars == <<vfile, vresult>>
unique_vars == <<fus_champion, fus_other, fus_result>>
integrator_vars == <<int_data, int_result>>
batch_vars == <<tournament_out, extraction, integration, faults>>
tournament_vars == <<cohort, tournament>>

vars == <<settings, pc, repo, verifier_vars, unique_vars, integrator_vars, batch_vars,
          tournament_vars>>

\* values of the variables a specification does not use
IdleUnique ==
    /\ fus_champion = <<>>
    /\ fus_other = <<>>
    /\ fus_result = <<>>

IdleIntegrator ==
    /\ int_data = <<>>
    /\ int_result = <<>>

IdleRepository == repo = <<>>

IdleTournament ==
    /\ cohort = <<>>
    /\ tournament = <<>>

IdleBatch ==
    /\ tournament_out = <<>>
    /\ extraction = <<>>
    /\ integration = <<>>
    /\ faults = <<>>

IdleVerifier ==
    /\ vfile = [kind |-> "missing", content |-> <<>>]
    /\ vresult = [raised |-> "pending", line_count |-> 0, issues |-> <<>>, passed |-> FALSE]

(***************************************************************************)
(* Characters and Python str primitives                                    *)
(***************************************************************************)
NL == "\n"
HASH == "#"

\* str whitespace as far as the modelled alphabet goes (space, tab)
IsWS(c) == c \in {" ", "\t"}

\* s.startswith(p)
StartsWith(s, p) ==
    /\ Len(s) >= Len(p)
    /\ \A i \in 1..Len(p) : s[i] = p[i]

\* s[i:] with a 0-based Python index i
From(s, i) == IF i >= Len(s) THEN <<>> ELSE SubSeq(s, i + 1, Len(s))

\* sub in s
Contains(s, sub) ==
    \E i \in 0..(Len(s) - Len(sub)) : StartsWith(From(s, i), sub)

RECURSIVE LStrip(_)
LStrip(s) == IF s # <<>> /\ IsWS(Head(s)) THEN LStrip(Tail(s)) ELSE s

RECURSIVE RStrip(_)
RStrip(s) ==
    IF s # <<>> /\ IsWS(s[Len(s)]) THEN RStrip(SubSeq(s, 1, Len(s) - 1)) ELSE s

\* s.strip()
Strip(s) == RStrip(LStrip(s))

\* "\n".join(lines)
RECURSIVE Join(_)
Join(lines) ==
    IF lines = <<>> THEN <<>>
    ELSE IF Len(lines) = 1 THEN lines[1]
    ELSE lines[1] \o <<NL>> \o Join(Tail(lines))

\* content.split("\n"): always at least one (possibly empty) element
Split(s) ==
    LET \* the positions of the line breaks, in order
        breaks == SelectSeq([i \in 1..Len(s) |-> i], LAMBDA i : s[i] = NL)
        n == Len(breaks)
    IN [k \in 1..(n + 1) |->
           SubSeq(s, IF k = 1 THEN 1 ELSE breaks[k - 1] + 1,
                     IF k = n + 1 THEN Len(s) ELSE breaks[k] - 1)]

\* s.count(c)
CountChar(s, c) == Cardinality({i \in 1..Len(s) : s[i] = c})

LineCount(s) == CountChar(s, NL) + 1

\* number of leading '#' characters of a line
RECURSIVE LeadingHashes(_)
LeadingHashes(line) ==
    IF line # <<>> /\ Head(line) = HASH THEN 1 + LeadingHashes(Tail(line)) ELSE 0

\* re.match(r"^#{lo,6}\s+.+$", line): the hashes are followed by at least one
\* whitespace character and at least one further character.  A line with more
\* than six hashes cannot match: after any 6 or fewer the next character is '#'.
HeaderRe(line, lo) ==
    LET h == LeadingHashes(line) IN
    /\ h >= lo
    /\ h <= 6
    /\ Len(line) >= h + 2
    /\ IsWS(line[h + 1])

\* group(1) and group(2) of re.match(r"^(#{2,6})\s+(.+)$", line).  \s+ is greedy
\* and gives one whitespace character back to (.+) only when nothing else is left.
HeaderLevel(line) == LeadingHashes(line)

HeaderGroup2(line) ==
    LET rest == From(line, LeadingHashes(line))
        after == LStrip(rest)
    IN IF after # <<>> THEN after ELSE <<rest[Len(rest)]>>

\* s.lower() on the ASCII letters
UpperCase == <<"A","B","C","D","E","F","G","H","I","J","K","L","M",
               "N","O","P","Q","R","S","T","U","V","W","X","Y","Z">>
LowerCase == <<"a","b","c","d","e","f","g","h","i","j","k","l","m",
               "n","o","p","q","r","s","t","u","v","w","x","y","z">>

LowerChar(c) ==
    IF \E i \in 1..Len(UpperCase) : UpperCase[i] = c
    THEN LowerCase[CHOOSE i \in 1..Len(UpperCase) : UpperCase[i] = c]
    ELSE c

RECURSIVE LowerFrom(_, _)
LowerFrom(s, i) ==
    IF i > Len(s) THEN <<>> ELSE <<LowerChar(s[i])>> \o LowerFrom(s, i + 1)

Lower(s) == LowerFrom(s, 1)

\* s.splitlines() for texts whose only line break is "\n": a final empty
\* piece is not a line
SplitLines(s) ==
    LET parts == Split(s) IN
    IF parts[Len(parts)] = <<>> THEN SubSeq(parts, 1, Len(parts) - 1) ELSE parts

(***************************************************************************)
(* The regular expressions of the citation patterns: a pattern is a        *)
(* sequence of atoms (a character class with a greedy repetition range),   *)
(* matched with backtracking as re does.                                   *)
(***************************************************************************)
Unbounded == 1000000

Atom(set, neg, min, max) == [set |-> set, neg |-> neg, min |-> min, max |-> max]
Lit(c) == Atom({c}, FALSE, 1, 1)
Opt(c) == Atom({c}, FALSE, 0, 1)
Lits(str) == [i \in 1..Len(str) |-> Lit(str[i])]

Digits == {"0","1","2","3","4","5","6","7","8","9"}
Spaces == {" ", "\t", NL}
Capitals == {UpperCase[i] : i \in 1..Len(UpperCase)}

DigitPlus == Atom(Digits, FALSE, 1, Unbounded)
SpacePlus == Atom(Spaces, FALSE, 1, Unbounded)
SpaceStar == Atom(Spaces, FALSE, 0, Unbounded)
NotDotStar == Atom({"."}, TRUE, 0, Unbounded)

InClass(a, c) == IF a.neg THEN c \notin a.set ELSE c \in a.set

\* how many characters from position pos on (1-based) belong to the class
RECURSIVE RunLen(_, _, _, _)
RunLen(a, s, pos, limit) ==
    IF limit = 0 \/ pos > Len(s) \/ ~InClass(a, s[pos]) THEN 0
    ELSE 1 + RunLen(a, s, pos + 1, limit - 1)

\* re.match of atoms k.. at position pos: the position after the match, or -1
RECURSIVE ReMatch(_, _, _, _)
RECURSIVE ReTry(_, _, _, _, _)
ReMatch(items, k, s, pos) ==
    IF k > Len(items) THEN pos
    ELSE ReTry(items, k, s, pos, RunLen(items[k], s, pos, items[k].max))

ReTry(items, k, s, pos, n) ==
    IF n < items[k].min THEN -1
    ELSE LET r == ReMatch(items, k + 1, s, pos + n) IN
         IF r >= 0 THEN r ELSE ReTry(items, k, s, pos, n - 1)

\* re.findall(pattern, s): the non-overlapping matches, left to right
RECURSIVE FindAll(_, _, _)
FindAll(items, s, pos) ==
    IF pos > Len(s) THEN <<>>
    ELSE LET e == ReMatch(items, 1, s, pos) IN
         IF e > pos THEN <<SubSeq(s, pos, e - 1)>> \o FindAll(items, s, e)
         ELSE FindAll(items, s, pos + 1)

(***************************************************************************)
(* difflib                                                                 *)
(***************************************************************************)
\* length of the common run of a and b that starts at a[i], b[j] and stays
\* within a[..ahi], b[..bhi]
RECURSIVE RunMatch(_, _, _, _, _, _)
RunMatch(a, b, i, j, ahi, bhi) ==
    IF i > ahi \/ j > bhi \/ a[i] # b[j] THEN 0
    ELSE 1 + RunMatch(a, b, i + 1, j + 1, ahi, bhi)

\* SequenceMatcher.find_longest_match(alo, ahi, blo, bhi) without junk (texts
\* shorter than 200 elements): the longest block, the earliest in a among the
\* longest, the earliest in b among those.  Bounds are 1-based and inclusive.
find_longest_match(a, b, alo, ahi, blo, bhi) ==
    LET blocks == {<<i, j, RunMatch(a, b, i, j, ahi, bhi)>> :
                       <<i, j>> \in {p \in (alo..ahi) \X (blo..bhi) : a[p[1]] = b[p[2]]}}
    IN IF blocks = {} THEN <<alo, blo, 0>>
       ELSE CHOOSE x \in blocks :
                \A y \in blocks :
                    \/ x[3] > y[3]
                    \/ x[3] = y[3] /\ x[1] < y[1]
                    \/ x[3] = y[3] /\ x[1] = y[1] /\ x[2] <= y[2]

\* sum of the sizes of SequenceMatcher.get_matching_blocks()
RECURSIVE MatchingCount(_, _, _, _, _, _)
MatchingCount(a, b, alo, ahi, blo, bhi) ==
    IF alo > ahi \/ blo > bhi THEN 0
    ELSE LET m == find_longest_match(a, b, alo, ahi, blo, bhi) IN
         IF m[3] = 0 THEN 0
         ELSE MatchingCount(a, b, alo, m[1] - 1, blo, m[2] - 1)
              + m[3]
              + MatchingCount(a, b, m[1] + m[3], ahi, m[2] + m[3], bhi)

\* SequenceMatcher(None, a, b).ratio() = 2.0 * matches / (len(a) + len(b)),
\* kept as the fraction <<numerator, denominator>>; 1.0 for two empty texts
ratio(a, b) ==
    IF Len(a) + Len(b) = 0 THEN <<1, 1>>
    ELSE <<2 * MatchingCount(a, b, 1, Len(a), 1, Len(b)), Len(a) + Len(b)>>

Prefixed(c, lines) == [i \in 1..Len(lines) |-> <<c>> \o lines[i]]

\* the '-', '+' and ' ' lines of the diff, in the order of the opcodes
RECURSIVE DiffBody(_, _, _, _, _, _)
DiffBody(a, b, alo, ahi, blo, bhi) ==
    LET m == IF alo > ahi \/ blo > bhi THEN <<alo, blo, 0>>
             ELSE find_longest_match(a, b, alo, ahi, blo, bhi)
    IN IF m[3] = 0
       THEN Prefixed("-", SubSeq(a, alo, ahi)) \o Prefixed("+", SubSeq(b, blo, bhi))
       ELSE DiffBody(a, b, alo, m[1] - 1, blo, m[2] - 1)
            \o Prefixed(" ", SubSeq(a, m[1], m[1] + m[3] - 1))
            \o DiffBody(a, b, m[1] + m[3], ahi, m[2] + m[3], bhi)

\* list(difflib.unified_diff(a, b, lineterm="")): nothing for equal inputs,
\* else the two file headers, a hunk header and the diff lines.  The hunk
\* headers are shortened to "@@" and context is not cut to three lines:
\* neither changes which lines start with '+'.
unified_diff(a, b) ==
    IF a = b THEN <<>>
    ELSE << <<"-","-","-"," ">>, <<"+","+","+"," ">>, <<"@","@">> >>
         \o DiffBody(a, b, 1, Len(a), 1, Len(b))

\* seq[:n]
Take(seq, n) == SubSeq(seq, 1, IF Len(seq) < n THEN Len(seq) ELSE n)

\* round(num / den, 2) in hundredths, ties to even (Python rounds the binary
\* value, which for a tie that is not a binary fraction may fall either way)
Round2(num, den) ==
    LET q == (100 * num) \div den
        r == (100 * num) % den
    IN IF 2 * r < den THEN q
       ELSE IF 2 * r > den THEN q + 1
       ELSE IF q % 2 = 0 THEN q ELSE q + 1

(***************************************************************************)
(* core/extractor.py                                                       *)
(***************************************************************************)
\* a SectionData whose line_end is the line of the next header
SectionDataEndingOnHeader(level, title, content, line_start, line_end) ==
    [level |-> level, title |-> title, content |-> content,
     line_start |-> line_start, line_end |-> line_end + 1]

SectionData(level, title, content, line_start, line_end) ==
    [level |-> level, title |-> title, content |-> content,
     line_start |-> line_start, line_end |-> line_end]

\* the loop of extract_sections over lines[i..]; `open` says whether
\* current_section is set, cur holds its level, title and line_start (0-based)
RECURSIVE SectionScan(_, _, _, _, _)
SectionScan(lines, i, open, cur, current_content) ==
    IF i > Len(lines)
    THEN IF open /\ current_content # <<>>
         THEN <<SectionData(cur.level, cur.title, Join(current_content),
                            cur.line_start, Len(lines) - 1)>>
         ELSE <<>>
    ELSE IF HeaderRe(lines[i], 2)
         THEN (IF open
               THEN <<SectionData(cur.level, cur.title, Join(current_content),
                                  cur.line_start, (i - 1) - 1)>>
               ELSE <<>>)
              \o SectionScan(lines, i + 1, TRUE,
                             [level |-> HeaderLevel(lines[i]),
                              title |-> Strip(HeaderGroup2(lines[i])),
                              line_start |-> i - 1],
                             <<lines[i]>>)
         ELSE SectionScan(lines, i + 1, open, cur,
                          IF current_content # <<>>
                          THEN Append(current_content, lines[i])
                          ELSE current_content)

extract_sections(content) ==
    SectionScan(Split(content), 1, FALSE,
                [level |-> 0, title |-> <<>>, line_start |-> 0], <<>>)

\* models/document.py UniqueImprovement; the optional fields a type does not
\* set hold the empty value, the human-readable `reason` is left out
UniqueImprovement(type, source_folder, value, title, level, content, lines, similarity, additions_preview, citations) ==
    [type |-> type, source_folder |-> source_folder, value |-> value,
     title |-> title, level |-> level, content |-> content, lines |-> lines,
     similarity |-> similarity, additions_preview |-> additions_preview,
     citations |-> citations]

SIMILARITY_THRESHOLD_NUM == 8
SIMILARITY_THRESHOLD_DEN == 10
MIN_ADDED_LINES == 3
HIGH_VALUE_LINES == 10
PREVIEW_LINES == 5

\* similarity < self.SIMILARITY_THRESHOLD for the fraction r.  The float
\* quotient is correctly rounded, so it is below 0.8 exactly when the fraction is.
BelowThreshold(r) == r[1] * SIMILARITY_THRESHOLD_DEN < SIMILARITY_THRESHOLD_NUM * r[2]

\* line.startswith("+") and not line.startswith("+++")
IsAddedLine(line) == StartsWith(line, <<"+">>) /\ ~StartsWith(line, <<"+","+","+">>)

\* [line for line in diff if line.startswith("+") and not line.startswith("+++")]
RECURSIVE AddedLines(_)
AddedLines(diff) ==
    IF diff = <<>> THEN <<>>
    ELSE (IF IsAddedLine(Head(diff)) THEN <<Head(diff)>> ELSE <<>>)
         \o AddedLines(Tail(diff))

\* the champion index keyed by the titles as written, letter case kept
ChampionTitlesCaseSensitive(champion_sections) ==
    {champion_sections[i].title : i \in 1..Len(champion_sections)}

\* champion_titles[t]: the dict comprehension keeps the last section of a title
ChampionTitles(champion_sections) ==
    {Lower(champion_sections[i].title) : i \in 1..Len(champion_sections)}

ChampionSection(champion_sections, t) ==
    champion_sections[CHOOSE i \in 1..Len(champion_sections) :
                          /\ Lower(champion_sections[i].title) = t
                          /\ \A j \in (i + 1)..Len(champion_sections) :
                                 Lower(champion_sections[j].title) # t]

\* what one iteration of the loop of find_unique_sections appends
SectionImprovements(champion_sections, section, other_folder) ==
    LET section_title_lower == Lower(section.title) IN
    IF section_title_lower \notin ChampionTitles(champion_sections)
    THEN <<UniqueImprovement("new_section", other_folder, "high", section.title,
                             section.level, section.content,
                             <<section.line_start, section.line_end>>,
                             0, <<>>, <<>>)>>
    ELSE LET champion_section == ChampionSection(champion_sections, section_title_lower)
             similarity == ratio(champion_section.content, section.content)
         IN IF ~BelowThreshold(similarity) THEN <<>>
            ELSE LET diff == unified_diff(SplitLines(champion_section.content),
                                          SplitLines(section.content))
                     added_lines == AddedLines(diff)
                 IN IF Len(added_lines) >= MIN_ADDED_LINES
                    THEN <<UniqueImprovement(
                               "enhanced_section", other_folder,
                               IF Len(added_lines) < HIGH_VALUE_LINES
                               THEN "medium" ELSE "high",
                               section.title, section.level, section.content,
                               <<section.line_start, section.line_end>>,
                               Round2(similarity[1], similarity[2]),
                               Join(Take(added_lines, PREVIEW_LINES)), <<>>)>>
                    ELSE <<>>

RECURSIVE UniqueScan(_, _, _, _)
UniqueScan(champion_sections, other_sections, i, other_folder) ==
    IF i > Len(other_sections) THEN <<>>
    ELSE SectionImprovements(champion_sections, other_sections[i], other_folder)
         \o UniqueScan(champion_sections, other_sections, i + 1, other_folder)

find_unique_sections(champion_content, other_content, other_folder) ==
    UniqueScan(extract_sections(champion_content),
               extract_sections(other_content), 1, other_folder)

\* models/document.py CitationCounts: the six categories in field order
CitationFields == <<"matter_of", "usc", "cfr", "ina", "form_i", "case_citations">>

\* characters outside ASCII, each one element of a text: the section sign, and
\* the two Thai letters that stand in its place in extractor.py and integrator.py
SECT == "<U+00A7>"
THAI_YO == "<U+0E22>"
THAI_NGO == "<U+0E07>"

\* the patterns of analyze_citations
CountPattern(field) ==
    CASE field = "matter_of" -> Lits(<<"M","a","t","t","e","r"," ","o","f"," ">>) \o <<Atom(Capitals, FALSE, 1, 1)>>
      [] field = "usc" -> <<DigitPlus, SpacePlus, Lit("U"), Opt("."), Lit("S"), Opt("."),
                            Lit("C"), Opt(".")>>
      [] field = "cfr" -> <<DigitPlus, SpacePlus, Lit("C"), Opt("."), Lit("F"), Opt("."),
                            Lit("R"), Opt(".")>>
      [] field = "ina" -> Lits(<<"I","N","A">>)
                          \o <<SpaceStar, Lit(THAI_YO), Lit(THAI_NGO), SpaceStar, DigitPlus>>
      [] field = "form_i" -> Lits(<<"F","o","r","m"," ","I","-">>) \o <<DigitPlus>>
      [] field = "case_citations" -> <<DigitPlus, SpacePlus, Lit("F"), Lit("."), DigitPlus,
                                       Lit("d"), SpacePlus, DigitPlus>>

\* getattr(analyze_citations(content), field)
analyze_citations(content) ==
    [f \in {CitationFields[i] : i \in 1..Len(CitationFields)} |->
        Len(FindAll(CountPattern(f), content, 1))]

\* the loop of compare_citations over the fields from the k-th on
RECURSIVE CitationDeltas(_, _, _)
CitationDeltas(champion_citations, other_citations, k) ==
    IF k > Len(CitationFields) THEN <<>>
    ELSE LET field_name == CitationFields[k]
             champion_count == champion_citations[field_name]
             other_count == other_citations[field_name]
         IN (IF other_count > champion_count
             THEN <<[category |-> field_name, champion |-> champion_count,
                     other |-> other_count,
                     difference |-> other_count - champion_count]>>
             ELSE <<>>)
            \o CitationDeltas(champion_citations, other_citations, k + 1)

\* compare_citations: the improved categories in field order; the empty
\* sequence stands for None
compare_citations(champion_content, other_content) ==
    CitationDeltas(analyze_citations(champion_content),
                   analyze_citations(other_content), 1)

(***************************************************************************)
(* core/verifier.py                                                        *)
(***************************************************************************)
EvolutionHeader ==
    <<"#","#"," ","D","o","c","u","m","e","n","t"," ",
      "E","v","o","l","u","t","i","o","n">>

VerificationIssue(t, sev, ln) == [type |-> t, severity |-> sev, line_number |-> ln]

NoLine == 0

\* first loop of verify_markdown_formatting: malformed headers
RECURSIVE MalformedScan(_, _)
MalformedScan(lines, i) ==
    IF i > Len(lines) THEN <<>>
    ELSE (IF StartsWith(lines[i], <<HASH>>) /\ ~HeaderRe(lines[i], 1)
          THEN <<VerificationIssue("formatting", "medium", i)>>
          ELSE <<>>) \o MalformedScan(lines, i + 1)

\* second loop of verify_markdown_formatting: runs of blank lines
RECURSIVE BlankScan(_, _, _, _)
BlankScan(lines, i, blank_count, max_blanks) ==
    IF i > Len(lines) THEN <<>>
    ELSE IF Strip(lines[i]) = <<>>
         THEN (IF blank_count + 1 > max_blanks
               THEN <<VerificationIssue("formatting", "low", i)>>
               ELSE <<>>) \o BlankScan(lines, i + 1, blank_count + 1, max_blanks)
         ELSE BlankScan(lines, i + 1, 0, max_blanks)

\* the body of verify_markdown_formatting once the toggle let it through
formatting_checks(content, st) ==
    LET lines == Split(content) IN
    MalformedScan(lines, 1)
    \o BlankScan(lines, 1, 0, st.max_consecutive_blank_lines)
    \o (IF st.add_evolution_metadata /\ ~Contains(content, EvolutionHeader)
        THEN <<VerificationIssue("formatting", "medium", NoLine)>>
        ELSE <<>>)

\* verify_markdown_formatting with the toggle check_markdown_formatting not consulted
verify_markdown_formatting_untoggled(content, st) == formatting_checks(content, st)

verify_markdown_formatting(content, st) ==
    IF ~st.check_markdown_formatting THEN <<>>
    ELSE formatting_checks(content, st)

\* the (line number, level) list built by verify_section_numbering
RECURSIVE HeaderScan(_, _)
HeaderScan(lines, i) ==
    IF i > Len(lines) THEN <<>>
    ELSE (IF HeaderRe(lines[i], 2)
          THEN <<[line_num |-> i, level |-> HeaderLevel(lines[i])]>>
          ELSE <<>>) \o HeaderScan(lines, i + 1)

RECURSIVE HierarchyScan(_, _)
HierarchyScan(sections, prev_level) ==
    IF sections = <<>> THEN <<>>
    ELSE (IF Head(sections).level > prev_level + 1
          THEN <<VerificationIssue("numbering", "low", Head(sections).line_num)>>
          ELSE <<>>) \o HierarchyScan(Tail(sections), Head(sections).level)

\* verify_section_numbering with the walk started from level 0 instead of level 1
verify_section_numbering_from_zero(content, st) ==
    IF ~st.check_section_numbering THEN <<>>
    ELSE HierarchyScan(HeaderScan(Split(content), 1), 0)

verify_section_numbering(content, st) ==
    IF ~st.check_section_numbering THEN <<>>
    ELSE HierarchyScan(HeaderScan(Split(content), 1), 1)

RECURSIVE DuplicationScan(_, _, _)
DuplicationScan(lines, i, section_titles) ==
    IF i > Len(lines) THEN <<>>
    ELSE IF StartsWith(lines[i], <<HASH, HASH>>)
         THEN LET title == Strip(From(lines[i], 2)) IN
              (IF title \in section_titles
               THEN <<VerificationIssue("duplication", "high", i)>>
               ELSE <<>>)
              \o DuplicationScan(lines, i + 1, section_titles \cup {title})
         ELSE DuplicationScan(lines, i + 1, section_titles)

verify_no_duplication(content, st) ==
    IF ~st.check_no_duplication THEN <<>>
    ELSE DuplicationScan(Split(content), 1, {})

verify_document_navigability(content, st) ==
    IF ~st.check_document_navigability THEN <<>>
    ELSE IF ~Contains(content, <<HASH, HASH, " ">>)
         THEN <<VerificationIssue("navigation", "medium", NoLine)>>
         ELSE <<>>

\* what the repository holds at a path: a text, or one of the failure modes of
\* document_exists / read_document
File(c) == [kind |-> "text", content |-> c]
Missing == [kind |-> "missing", content |-> <<>>]
Unreadable == [kind |-> "unreadable", content |-> <<>>]

VerificationResult(r, n, iss, p) ==
    [raised |-> r, line_count |-> n, issues |-> iss, passed |-> p]

NoResult == VerificationResult("pending", 0, <<>>, FALSE)

verify_document(file, st) ==
    IF file.kind = "missing"
    THEN VerificationResult("FileNotFoundError", 0, <<>>, FALSE)
    ELSE IF file.kind = "unreadable"
    THEN VerificationResult("PermissionError", 0, <<>>, FALSE)
    ELSE LET content == file.content
             all_issues == verify_markdown_formatting(content, st)
                           \o verify_section_numbering(content, st)
                           \o verify_no_duplication(content, st)
                           \o verify_document_navigability(content, st)
         IN VerificationResult("none", LineCount(content), all_issues,
                               Len(all_issues) = 0)

\* s.replace(old, new) for a non-empty old: every occurrence, left to right
RECURSIVE Replace(_, _, _)
Replace(s, old, new) ==
    IF s = <<>> THEN <<>>
    ELSE IF StartsWith(s, old) THEN new \o Replace(From(s, Len(old)), old, new)
    ELSE <<Head(s)>> \o Replace(Tail(s), old, new)

\* <base>/<folder>/<filename>, the layout find_documents reads
PathOf(folder, filename) == <<"/">> \o folder \o <<"/">> \o filename

\* what the repository holds at a path
Stored(repository, path) ==
    IF path \in DOMAIN repository THEN repository[path] ELSE Missing

\* the exception read_document raises for a file that is not a readable text
ReadError(file) ==
    IF file.kind = "missing" THEN "FileNotFoundError" ELSE "PermissionError"

\* models/document.py TournamentResult as far as the later stages read it;
\* all_scores lists the folders in the order of the dict
TournamentResult(filename, champion_folder, champion_path, champion_score, all_scores) ==
    [filename |-> filename, champion_folder |-> champion_folder,
     champion_path |-> champion_path, champion_score |-> champion_score,
     all_scores |-> all_scores]

\* the dict extract_for_document returns
ImprovementData(champion, champion_path, champion_score, improvements) ==
    [champion |-> champion, champion_path |-> champion_path,
     champion_score |-> champion_score, improvements |-> improvements,
     improvement_count |-> Len(improvements)]

NoImprovementData == ImprovementData(<<>>, <<>>, 0, <<>>)

\* how a call of extract_for_document ends: an exception, None, or the dict
ExtractionOutcome(raised, returned, data) ==
    [raised |-> raised, returned |-> returned, data |-> data]

\* the loop of extract_for_document with `break` in place of `continue`: the
\* first version that cannot be read ends the loop
RECURSIVE VersionImprovementsUntilUnreadable(_, _, _, _)
VersionImprovementsUntilUnreadable(tournament_result, champion_content, repository, k) ==
    IF k > Len(tournament_result.all_scores) THEN <<>>
    ELSE LET folder == tournament_result.all_scores[k].folder
             other_path == Replace(tournament_result.champion_path,
                                   tournament_result.champion_folder, folder)
             other == Stored(repository, other_path)
             rest == VersionImprovementsUntilUnreadable(tournament_result,
                                                        champion_content, repository, k + 1)
         IN IF folder = tournament_result.champion_folder THEN rest
            ELSE IF other.kind # "text" THEN <<>>
            ELSE LET unique_sections ==
                         find_unique_sections(champion_content, other.content, folder)
                     citation_improvements ==
                         compare_citations(champion_content, other.content)
                 IN unique_sections
                    \o (IF citation_improvements # <<>>
                        THEN <<UniqueImprovement("citation_enhancement", folder, "high",
                                                 <<>>, 0, <<>>, <<>>, 0, <<>>,
                                                 citation_improvements)>>
                        ELSE <<>>)
                    \o rest

\* the loop of extract_for_document over all_scores from the k-th folder on
RECURSIVE VersionImprovements(_, _, _, _)
VersionImprovements(tournament_result, champion_content, repository, k) ==
    IF k > Len(tournament_result.all_scores) THEN <<>>
    ELSE LET folder == tournament_result.all_scores[k].folder
             other_path == Replace(tournament_result.champion_path,
                                   tournament_result.champion_folder, folder)
             other == Stored(repository, other_path)
             rest == VersionImprovements(tournament_result, champion_content,
                                         repository, k + 1)
         IN IF folder = tournament_result.champion_folder \/ other.kind # "text"
            THEN rest
            ELSE LET unique_sections ==
                         find_unique_sections(champion_content, other.content, folder)
                     citation_improvements ==
                         compare_citations(champion_content, other.content)
                 IN unique_sections
                    \o (IF citation_improvements # <<>>
                        THEN <<UniqueImprovement("citation_enhancement", folder, "high",
                                                 <<>>, 0, <<>>, <<>>, 0, <<>>,
                                                 citation_improvements)>>
                        ELSE <<>>)
                    \o rest

extract_for_document(tournament_result, repository) ==
    LET champion == Stored(repository, tournament_result.champion_path) IN
    IF champion.kind # "text"
    THEN ExtractionOutcome(ReadError(champion), FALSE, NoImprovementData)
    ELSE LET improvements ==
                 VersionImprovements(tournament_result, champion.content, repository, 1)
         IN IF improvements = <<>>
            THEN ExtractionOutcome("none", FALSE, NoImprovementData)
            ELSE ExtractionOutcome("none", TRUE,
                     ImprovementData(tournament_result.champion_folder,
                                     tournament_result.champion_path,
                                     tournament_result.champion_score, improvements))

(***************************************************************************)
(* core/integrator.py                                                      *)
(***************************************************************************)
FooterRule == <<"-","-","-">>
FooterEvolution == <<"*","*","D","o","c","u","m","e","n","t"," ","E","v","o","l","u","t","i","o","n">>

\* lines[i].startswith("---") or lines[i].startswith("**Document Evolution")
IsFooterLine(line) == StartsWith(line, FooterRule) \/ StartsWith(line, FooterEvolution)

\* the scan run forward: the 0-based index of the first footer line
FirstFooter(lines) ==
    LET footers == {i \in 1..Len(lines) : IsFooterLine(lines[i])}
    IN IF footers = {} THEN Len(lines)
       ELSE (CHOOSE i \in footers : \A j \in footers : i <= j) - 1

\* for i in range(len(lines) - 1, -1, -1): the 0-based index of the last
\* footer line, len(lines) when there is none
LastFooter(lines) ==
    LET footers == {i \in 1..Len(lines) : IsFooterLine(lines[i])}
    IN IF footers = {} THEN Len(lines)
       ELSE (CHOOSE i \in footers : \A j \in footers : j <= i) - 1

SectionMark == <<"#","#">>

\* the 0-based line index at which the improvement is inserted
find_insertion_point(champion_content, improvement) ==
    LET lines == Split(champion_content)
        section_title == Lower(improvement.title)
        related == {i \in 1..Len(lines) :
                       /\ StartsWith(lines[i], SectionMark)
                       /\ Contains(Lower(lines[i]), section_title)}
    IN IF improvement.type = "new_section" THEN LastFooter(lines)
       ELSE IF improvement.type = "enhanced_section" /\ improvement.title # <<>>
                 /\ related # {}
       THEN LET i == CHOOSE k \in related : \A m \in related : k <= m
                next == {j \in (i + 1)..Len(lines) : StartsWith(lines[j], SectionMark)}
            IN IF next = {} THEN Len(lines)
               ELSE (CHOOSE j \in next : \A m \in next : j <= m) - 1
       ELSE Len(lines)

\* improvement.content.split("\n")[1:], nothing for an empty content
ContentLines(content) == IF content = <<>> THEN <<>> ELSE Tail(Split(content))

Attribution(source_folder) == <<"*","[","I","n","t","e","g","r","a","t","e","d"," ","f","r","o","m"," ">> \o source_folder \o <<"]","*">>

\* the block under a header one level down
format_improvement_as_subsection(improvement, source_folder, st) ==
    IF improvement.type = "citation_enhancement" THEN <<>>
    ELSE Join(<< <<>>, <<"#","#","#"," ">> \o improvement.title >>
              \o (IF st.preserve_source_attribution
                  THEN << Attribution(source_folder), <<>> >> ELSE <<>>)
              \o ContentLines(improvement.content)
              \o << <<>> >>)

\* the text inserted for a section improvement; "" for a citation enhancement
format_improvement(improvement, source_folder, st) ==
    IF improvement.type = "citation_enhancement" THEN <<>>
    ELSE Join(<< <<>>, <<"#","#"," ">> \o improvement.title >>
              \o (IF st.preserve_source_attribution
                  THEN << Attribution(source_folder), <<>> >> ELSE <<>>)
              \o ContentLines(improvement.content)
              \o << <<>> >>)

\* lines[index] = item in place of lines.insert(index, item)
InsertOverwriting(lines, index, item) ==
    SubSeq(lines, 1, index) \o <<item>> \o SubSeq(lines, index + 2, Len(lines))

\* lines.insert(index, item) for 0 <= index <= len(lines)
Insert(lines, index, item) ==
    SubSeq(lines, 1, index) \o <<item>> \o SubSeq(lines, index + 1, Len(lines))

\* the optional mis-encoded section sign of the usc and cfr patterns
OptSectionSign == <<Lit(THAI_YO), Opt(THAI_NGO)>>
SentenceEnd == <<NotDotStar, Lit(".")>>

\* the patterns of extract_citations_from_improvement
ExtractPattern(field) ==
    CASE field = "matter_of" -> Lits(<<"M","a","t","t","e","r"," ","o","f"," ">>) \o <<Atom(Capitals, FALSE, 1, 1)>> \o SentenceEnd
      [] field = "usc" -> <<DigitPlus, SpacePlus, Lit("U"), Opt("."), Lit("S"), Opt("."),
                            Lit("C"), Opt("."), SpaceStar>>
                          \o OptSectionSign \o <<SpaceStar, DigitPlus>> \o SentenceEnd
      [] field = "cfr" -> <<DigitPlus, SpacePlus, Lit("C"), Opt("."), Lit("F"), Opt("."),
                            Lit("R"), Opt("."), SpaceStar>>
                          \o OptSectionSign \o <<SpaceStar, DigitPlus>> \o SentenceEnd
      [] field = "ina" -> Lits(<<"I","N","A">>)
                          \o <<SpaceStar, Lit(THAI_YO), Lit(THAI_NGO), SpaceStar, DigitPlus>>
                          \o SentenceEnd
      [] field = "form_i" -> Lits(<<"F","o","r","m"," ","I","-">>) \o <<DigitPlus>> \o SentenceEnd
      [] field = "case_citations" -> <<DigitPlus, SpacePlus, Lit("F"), Lit("."), DigitPlus,
                                       Lit("d"), SpacePlus, DigitPlus>> \o SentenceEnd

\* the loop over improvement.citations.items() from the k-th entry on
RECURSIVE CitationsFound(_, _, _)
CitationsFound(citations, other_content, k) ==
    IF k > Len(citations) THEN <<>>
    ELSE LET matches == FindAll(ExtractPattern(citations[k].category), other_content, 1)
         IN Take(matches, citations[k].difference)
            \o CitationsFound(citations, other_content, k + 1)

extract_citations_from_improvement(improvement, other_content) ==
    IF improvement.type # "citation_enhancement" \/ improvement.citations = <<>>
    THEN <<>>
    ELSE CitationsFound(improvement.citations, other_content, 1)

CitationsHeader == <<"#","#"," ","A","d","d","i","t","i","o","n","a","l"," ","L","e","g","a","l"," ","C","i","t","a","t","i","o","n","s">>

integrate_citations(champion_content, citations, source_folder, st) ==
    IF citations = <<>> \/ ~st.integrate_citations THEN champion_content
    ELSE LET citation_section ==
                 << <<>>, CitationsHeader >>
                 \o (IF st.preserve_source_attribution
                     THEN <<Attribution(source_folder)>> ELSE <<>>)
                 \o << <<>> >>
                 \o [i \in 1..Len(citations) |-> <<"-"," ">> \o Strip(citations[i])]
                 \o << <<>> >>
             lines == Split(champion_content)
             insertion_point == LastFooter(lines)
         IN Join(Insert(lines, insertion_point, Join(citation_section)))

DigitChars == <<"0","1","2","3","4","5","6","7","8","9">>

\* str(n) of an integer n >= 0
RECURSIVE ToDigits(_)
ToDigits(n) ==
    IF n < 10 THEN <<DigitChars[n + 1]>>
    ELSE ToDigits(n \div 10) \o <<DigitChars[(n % 10) + 1]>>

\* the characters of folder names in code point order
CodeOrder == DigitChars \o UpperCase \o <<"_">> \o LowerCase
Ord(c) == CHOOSE i \in 1..Len(CodeOrder) : CodeOrder[i] = c

\* a < b for two strings
RECURSIVE StrLess(_, _)
StrLess(a, b) ==
    IF b = <<>> THEN FALSE
    ELSE IF a = <<>> THEN TRUE
    ELSE IF Head(a) = Head(b) THEN StrLess(Tail(a), Tail(b))
    ELSE Ord(Head(a)) < Ord(Head(b))

\* sorted(strings) of a set of strings
RECURSIVE Sorted(_)
Sorted(strings) ==
    IF strings = {} THEN <<>>
    ELSE LET least == CHOOSE s \in strings : \A t \in strings \ {s} : StrLess(s, t)
         IN <<least>> \o Sorted(strings \ {least})

SourceFolders(improvements) ==
    {improvements[i].source_folder : i \in 1..Len(improvements)}

FolderCount(improvements, folder) ==
    Cardinality({i \in 1..Len(improvements) : improvements[i].source_folder = folder})

\* today is datetime.now().strftime('%Y-%m-%d')
add_evolution_metadata(original_content, integrated_content, improvements, st, today) ==
    IF ~st.add_evolution_metadata THEN integrated_content
    ELSE LET original_lines == CountChar(original_content, NL) + 1
             integrated_lines == CountChar(integrated_content, NL) + 1
             added_lines == integrated_lines - original_lines
             folders == Sorted(SourceFolders(improvements))
             metadata ==
                 << <<>>, FooterRule, <<>>, EvolutionHeader, <<>>,
                    <<"*","*","O","r","i","g","i","n","a","l"," ","C","h","a","m","p","i","o","n"," ","L","i","n","e","s","*","*",":"," ">> \o ToDigits(original_lines),
                    <<"*","*","I","n","t","e","g","r","a","t","e","d"," ","L","i","n","e","s","*","*",":"," ">> \o ToDigits(integrated_lines)
                        \o <<" ","(","+">> \o ToDigits(added_lines) \o <<" ","l","i","n","e","s",")">>,
                    <<"*","*","I","m","p","r","o","v","e","m","e","n","t","s"," ","I","n","t","e","g","r","a","t","e","d","*","*",":"," ">> \o ToDigits(Len(improvements)),
                    <<>>, <<"*","*","S","o","u","r","c","e","s","*","*",":">> >>
                 \o [i \in 1..Len(folders) |->
                        <<"-"," ">> \o folders[i] \o <<":"," ">>
                        \o ToDigits(FolderCount(improvements, folders[i]))
                        \o <<" ","i","m","p","r","o","v","e","m","e","n","t","s">>]
                 \o << <<>>, <<"*","*","L","a","s","t"," ","U","p","d","a","t","e","d","*","*",":"," ">> \o today,
                       <<"*","*","S","t","a","t","u","s","*","*",":"," ","C","O","M","P","R","E","H","E","N","S","I","V","E"," ","M","A","S","T","E","R"," ","D","O","C","U","M","E","N","T">>, <<>> >>
         IN integrated_content \o Join(metadata)

\* models/document.py IntegrationResult (the timestamp left out)
IntegrationResult(filename, champion_folder, champion_path, original_line_count, integrated_line_count, added_lines, improvements_integrated, source_folders, integrated_content) ==
    [filename |-> filename, champion_folder |-> champion_folder,
     champion_path |-> champion_path,
     original_line_count |-> original_line_count,
     integrated_line_count |-> integrated_line_count,
     added_lines |-> added_lines,
     improvements_integrated |-> improvements_integrated,
     source_folders |-> source_folders,
     integrated_content |-> integrated_content]

NoIntegrationResult == IntegrationResult(<<>>, <<>>, <<>>, 0, 0, 0, 0, {}, <<>>)

\* how a call of integrate_document ends: an exception, None, or a result
IntegrationOutcome(raised, returned, result) ==
    [raised |-> raised, returned |-> returned, result |-> result]

\* the improvements left in the order of the list
UnsortedImprovements(improvements) == improvements

\* sorted(improvements, key=lambda x: 0 if x.type == "enhanced_section" else 1)
SortedImprovements(improvements) ==
    SelectSeq(improvements, LAMBDA x : x.type = "enhanced_section")
    \o SelectSeq(improvements, LAMBDA x : x.type # "enhanced_section")

\* first pass over sorted_improvements[k..]: the text and the count after it
RECURSIVE SectionPass(_, _, _, _, _)
SectionPass(sorted_improvements, k, integrated_content, integration_count, st) ==
    IF k > Len(sorted_improvements)
    THEN [content |-> integrated_content, count |-> integration_count]
    ELSE LET improvement == sorted_improvements[k] IN
         IF improvement.type = "citation_enhancement"
         THEN SectionPass(sorted_improvements, k + 1, integrated_content,
                          integration_count, st)
         ELSE LET insertion_point == find_insertion_point(integrated_content, improvement)
                  formatted_improvement ==
                      format_improvement(improvement, improvement.source_folder, st)
              IN IF formatted_improvement = <<>>
                 THEN SectionPass(sorted_improvements, k + 1, integrated_content,
                                  integration_count, st)
                 ELSE SectionPass(sorted_improvements, k + 1,
                                  Join(Insert(Split(integrated_content), insertion_point,
                                              formatted_improvement)),
                                  integration_count + 1, st)

\* second pass over citation_improvements[k..]
RECURSIVE CitationPass(_, _, _, _, _, _, _)
CitationPass(citation_improvements, k, integrated_content, integration_count, improvement_data, repository, st) ==
    IF k > Len(citation_improvements)
    THEN [content |-> integrated_content, count |-> integration_count]
    ELSE IF st.skip_citation_enhancement
    THEN CitationPass(citation_improvements, k + 1, integrated_content,
                      integration_count, improvement_data, repository, st)
    ELSE LET source_folder == citation_improvements[k].source_folder
             source_path == Replace(improvement_data.champion_path,
                                    improvement_data.champion, source_folder)
             source == Stored(repository, source_path)
             citations == extract_citations_from_improvement(
                              citation_improvements[k], source.content)
         IN IF source.kind # "text" \/ citations = <<>>
            THEN CitationPass(citation_improvements, k + 1, integrated_content,
                              integration_count, improvement_data, repository, st)
            ELSE CitationPass(citation_improvements, k + 1,
                              integrate_citations(integrated_content, citations,
                                                  source_folder, st),
                              integration_count + 1, improvement_data, repository, st)

integrate_document(filename, improvement_data, repository, st, today) ==
    LET champion_path == improvement_data.champion_path
        improvements == improvement_data.improvements
        champion == Stored(repository, champion_path)
    IN IF champion.kind # "text"
       THEN IntegrationOutcome(ReadError(champion), FALSE, NoIntegrationResult)
       ELSE LET champion_content == champion.content
                original_lines == CountChar(champion_content, NL) + 1
                sorted_improvements == SortedImprovements(improvements)
                citation_improvements ==
                    SelectSeq(sorted_improvements,
                              LAMBDA x : x.type = "citation_enhancement")
                first == SectionPass(sorted_improvements, 1, champion_content, 0, st)
                second == CitationPass(citation_improvements, 1, first.content,
                                       first.count, improvement_data, repository, st)
            IN IF second.count = 0
               THEN IntegrationOutcome("none", FALSE, NoIntegrationResult)
               ELSE LET integrated_content ==
                            add_evolution_metadata(champion_content, second.content,
                                                   improvements, st, today)
                        integrated_lines == CountChar(integrated_content, NL) + 1
                    IN IntegrationOutcome("none", TRUE,
                           IntegrationResult(filename, improvement_data.champion,
                               champion_path, original_lines, integrated_lines,
                               integrated_lines - original_lines, second.count,
                               SourceFolders(improvements), integrated_content))

(***************************************************************************)
(* The batch entry points run_extraction and run_integration               *)
(***************************************************************************)
\* how a batch call ends: the exception that left it, or the value returned
BatchOutcome(raised, results) == [raised |-> raised, results |-> results]

\* the loop of run_extraction over sorted(tournament_results.items()) from the
\* k-th file name on; found is unique_improvements so far, in insertion order
RECURSIVE ExtractionLoop(_, _, _, _, _)
ExtractionLoop(tournament_results, filenames, k, found, repository) ==
    IF k > Len(filenames) THEN BatchOutcome("none", found)
    ELSE LET unique_content ==
                 extract_for_document(tournament_results[filenames[k]], repository)
         IN IF unique_content.raised # "none"
            THEN BatchOutcome(unique_content.raised, <<>>)
            ELSE ExtractionLoop(tournament_results, filenames, k + 1,
                                IF unique_content.returned
                                THEN Append(found, [filename |-> filenames[k],
                                                    data |-> unique_content.data])
                                ELSE found,
                                repository)

run_extraction(tournament_results, repository) ==
    IF DOMAIN tournament_results = {} THEN BatchOutcome("ValueError", <<>>)
    ELSE ExtractionLoop(tournament_results, Sorted(DOMAIN tournament_results), 1,
                        <<>>, repository)

OutputDir == <<"o","u","t","p","u","t">>
OutputPrefix == <<"C","O","M","P","R","E","H","E","N","S","I","V","E","_">>

\* settings.input_directory / settings.integration.output_dir / output_filename
OutputPath(filename) == PathOf(OutputDir, OutputPrefix \o filename)

\* one pass of the loop body after integrate_document has answered: an
\* exception of integrate_document or of create_directory leaves the loop, a
\* result is saved and listed unless write_document fails
SaveIntegrated(acc, outcome, output_path, write_faults) ==
    IF outcome.raised # "none"
    THEN [raised |-> outcome.raised, results |-> <<>>, repository |-> acc.repository]
    ELSE IF ~outcome.returned
    THEN acc
    ELSE IF write_faults.create_directory
    THEN [raised |-> "PermissionError", results |-> <<>>,
          repository |-> acc.repository]
    ELSE IF output_path \in write_faults.write_document
    THEN acc
    ELSE [raised |-> "none",
          results |-> Append(acc.results, outcome.result),
          repository |-> [path \in DOMAIN acc.repository \cup {output_path} |->
                             IF path = output_path
                             THEN File(outcome.result.integrated_content)
                             ELSE acc.repository[path]]]

\* the loop of run_integration from the k-th entry on.  The entries are
\* already sorted by file name.  The outcome carries the repository as the
\* writes of save_integrated_document leave it.
RECURSIVE IntegrationLoop(_, _, _, _, _, _)
IntegrationLoop(unique_improvements, k, acc, st, today, write_faults) ==
    IF k > Len(unique_improvements) \/ acc.raised # "none"
    THEN acc
    ELSE IntegrationLoop(unique_improvements, k + 1,
             SaveIntegrated(acc,
                 integrate_document(unique_improvements[k].filename,
                                    unique_improvements[k].data,
                                    acc.repository, st, today),
                 OutputPath(unique_improvements[k].filename), write_faults),
             st, today, write_faults)

\* run_integration without the check of an empty argument
run_integration_unchecked(unique_improvements, repository, st, today, write_faults) ==
    IntegrationLoop(unique_improvements, 1,
        [raised |-> "none", results |-> <<>>, repository |-> repository],
        st, today, write_faults)

run_integration(unique_improvements, repository, st, today, write_faults) ==
    IF unique_improvements = <<>>
    THEN [raised |-> "ValueError", results |-> <<>>, repository |-> repository]
    ELSE IntegrationLoop(unique_improvements, 1,
             [raised |-> "none", results |-> <<>>, repository |-> repository],
             st, today, write_faults)

\* output_dir / f"COMPREHENSIVE_{result.filename}" as run_verification builds it
\* the path without the prefix of the output files
VerifiedPathWithoutPrefix(filename) == PathOf(OutputDir, filename)

VerifiedPath(filename) == PathOf(OutputDir, OutputPrefix \o filename)

\* the VerificationResult verify_document returns for a family
VerifiedDocument(filename, filepath, verification) ==
    [filename |-> filename, filepath |-> filepath,
     line_count |-> verification.line_count, issues |-> verification.issues,
     passed |-> verification.passed]

\* one pass of the loop of run_verification: every exception of
\* verify_document is logged and the result left out
KeepVerified(verification_results, filename, filepath, verification) ==
    IF verification.raised # "none" THEN verification_results
    ELSE Append(verification_results,
                VerifiedDocument(filename, filepath, verification))

RECURSIVE VerificationLoop(_, _, _, _, _)
VerificationLoop(integration_results, k, verification_results, repository, st) ==
    IF k > Len(integration_results) THEN BatchOutcome("none", verification_results)
    ELSE VerificationLoop(integration_results, k + 1,
             KeepVerified(verification_results, integration_results[k].filename,
                          VerifiedPath(integration_results[k].filename),
                          verify_document(Stored(repository,
                                              VerifiedPath(integration_results[k].filename)),
                                          st)),
             repository, st)

run_verification(integration_results, repository, st) ==
    IF integration_results = <<>> THEN BatchOutcome("ValueError", <<>>)
    ELSE VerificationLoop(integration_results, 1, <<>>, repository, st)

(***************************************************************************)
(* core/tournament.py: scores are kept in hundredths                       *)
(***************************************************************************)
\* models/document.py DocumentMetadata (the hash left out)
DocumentMetadata(path, folder, content, line_count, modified_time) ==
    [path |-> path, folder |-> folder, content |-> content,
     line_count |-> line_count, modified_time |-> modified_time]

\* the occurrences counted from position pos on, of those starting at the
\* positions in found: each one counted hides those that overlap it
RECURSIVE CountFrom(_, _, _)
CountFrom(found, width, pos) ==
    LET later == {i \in found : i >= pos} IN
    IF later = {} THEN 0
    ELSE 1 + CountFrom(found, width, (CHOOSE i \in later : \A j \in later : i <= j) + width)

\* s.count(sub) for a non-empty sub: the non-overlapping occurrences
Count(s, sub) ==
    LET found == {i \in 1..(Len(s) - Len(sub) + 1) :
                     \A j \in 1..Len(sub) : s[i + j - 1] = sub[j]}
    IN CountFrom(found, Len(sub), 1)

RECURSIVE SumOver(_, _, _)
SumOver(s, patterns, k) ==
    IF k > Len(patterns) THEN 0
    ELSE Count(s, patterns[k]) + SumOver(s, patterns, k + 1)

\* the grave accent, written as a code point
BACKTICK == "<U+0060>"

Min(a, b) == IF a < b THEN a ELSE b
MaxOf(S) == CHOOSE x \in S : \A y \in S : y <= x
MinOf(S) == CHOOSE x \in S : \A y \in S : x <= y

\* score_completeness with the line count normalised by the shortest version
score_completeness_by_shortest(versions, version_key) ==
    LET version == versions[version_key]
        lines == version.line_count
        sections == Count(version.content, <<NL,"#","#">>)
        subsections == Count(version.content, <<NL,"#","#","#">>)
        min_lines == MinOf({versions[k].line_count : k \in 1..Len(versions)})
        headers == 3 * Min(sections, 10) + Min(subsections, 20)
    IN IF min_lines > 0
       THEN Round2(50 * lines + headers * min_lines, 10 * min_lines)
       ELSE Round2(headers, 10)

score_completeness(versions, version_key) ==
    LET version == versions[version_key]
        lines == version.line_count
        sections == Count(version.content, <<NL,"#","#">>)
        subsections == Count(version.content, <<NL,"#","#","#">>)
        max_lines == MaxOf({versions[k].line_count : k \in 1..Len(versions)})
        \* min(sections / 10, 1) * 3 + min(subsections / 20, 1) * 2, in tenths
        headers == 3 * Min(sections, 10) + Min(subsections, 20)
    IN IF max_lines > 0
       THEN Round2(50 * lines + headers * max_lines, 10 * max_lines)
       ELSE Round2(headers, 10)

\* score_recency measured from the newest version back
score_recency_from_newest(versions, version_key) ==
    LET mtimes == {versions[k].modified_time : k \in 1..Len(versions)}
        oldest == MinOf(mtimes)
        newest == MaxOf(mtimes)
    IN IF newest = oldest THEN 500
       ELSE Round2(10 * (newest - versions[version_key].modified_time), newest - oldest)

score_recency(versions, version_key) ==
    LET mtimes == {versions[k].modified_time : k \in 1..Len(versions)}
        oldest == MinOf(mtimes)
        newest == MaxOf(mtimes)
    IN IF newest = oldest THEN 500
       ELSE Round2(10 * (versions[version_key].modified_time - oldest), newest - oldest)

score_structure(versions, version_key) ==
    LET content == versions[version_key].content
        has_title == StartsWith(Strip(content), <<"#">>)
        has_headers == Contains(content, <<"#","#">>)
        has_lists == \E marker \in {<<"-"," ">>, <<"*"," ">>, <<"1","."," ">>} : Contains(content, marker)
        has_code_blocks == Contains(content, <<BACKTICK, BACKTICK, BACKTICK>>)
    IN (IF has_title THEN 250 ELSE 0) + (IF has_headers THEN 250 ELSE 0)
       + (IF has_lists THEN 250 ELSE 0) + (IF has_code_blocks THEN 250 ELSE 0)

citation_patterns ==
    << <<"M","a","t","t","e","r"," ","o","f"," ">>, <<"v",".">>, <<"U",".","S",".","C",".">>, <<"C",".","F",".","R",".">>, <<"I","N","A"," ">> \o <<SECT>>,
       <<"F","o","r","m"," ","I","-">>, <<"8"," ","C","F","R">>, <<"8"," ","U","S","C">> >>

score_citations(versions, version_key) ==
    LET citation_count == SumOver(versions[version_key].content, citation_patterns, 1)
        most == MaxOf({SumOver(versions[k].content, citation_patterns, 1) :
                          k \in 1..Len(versions)})
        max_citations == IF most = 0 THEN 1 ELSE most
    IN IF citation_count >= max_citations THEN 1000
       ELSE Round2(10 * citation_count, max_citations)

argument_keywords ==
    << <<"t","h","e","r","e","f","o","r","e">>, <<"h","o","w","e","v","e","r">>, <<"m","o","r","e","o","v","e","r">>, <<"f","u","r","t","h","e","r","m","o","r","e">>, <<"c","o","n","s","e","q","u","e","n","t","l","y">>,
       <<"a","c","c","o","r","d","i","n","g","l","y">>, <<"a","r","g","u","m","e","n","t">>, <<"d","e","m","o","n","s","t","r","a","t","e","s">>, <<"e","s","t","a","b","l","i","s","h","e","s">>, <<"p","u","r","s","u","a","n","t"," ","t","o">> >>

\* keyword_count and (line_count or 1) of a version
Keywords(version) ==
    LET text == Lower(version.content) IN SumOver(text, argument_keywords, 1)
LinesOrOne(version) == IF version.line_count = 0 THEN 1 ELSE version.line_count

\* the keyword counts of the versions from the k-th on
RECURSIVE KeywordCounts(_, _)
KeywordCounts(versions, k) ==
    IF k > Len(versions) THEN <<>>
    ELSE <<Keywords(versions[k])>> \o KeywordCounts(versions, k + 1)

score_arguments(versions, version_key) ==
    LET version == versions[version_key]
        keyword_count == KeywordCounts(versions, 1)
        \* the version of greatest density keyword_count / lines
        densest == CHOOSE k \in 1..Len(versions) : \A j \in 1..Len(versions) :
                       keyword_count[j] * LinesOrOne(versions[k])
                           <= keyword_count[k] * LinesOrOne(versions[j])
    IN IF keyword_count[densest] = 0
       \* max_density is 0 and is replaced by 1; density is 0 as well
       THEN 0
       ELSE Round2(10 * keyword_count[version_key] * LinesOrOne(versions[densest]),
                   LinesOrOne(version) * keyword_count[densest])

\* models/document.py ScoreBreakdown
ScoreBreakdown(completeness, recency, structure, citations, arguments) ==
    [completeness |-> completeness, recency |-> recency, structure |-> structure,
     citations |-> citations, arguments |-> arguments]

Total(breakdown) ==
    breakdown.completeness + breakdown.recency + breakdown.structure
    + breakdown.citations + breakdown.arguments

ScoreFloor == 0
ScoreCeiling == 1000

\* the range validation of the five fields, ge=0.0 and le=10.0
ValidBreakdown(breakdown) ==
    \A f \in DOMAIN breakdown : ScoreFloor <= breakdown[f] /\ breakdown[f] <= ScoreCeiling

evaluate_version(versions, version_key) ==
    ScoreBreakdown(score_completeness(versions, version_key),
                   score_recency(versions, version_key),
                   score_structure(versions, version_key),
                   score_citations(versions, version_key),
                   score_arguments(versions, version_key))

\* how run_tournament ends: the exception raised, else the champion's key
\* and self.scores, one entry per version in the order of the dict
TournamentOutcome(raised, champion, scores) ==
    [raised |-> raised, champion |-> champion, scores |-> scores]

\* min in place of max: the first key of least total
ChampionOfLeastTotal(versions, scores) ==
    CHOOSE k \in 1..Len(versions) :
        /\ \A j \in 1..Len(versions) : Total(scores[k].breakdown) <= Total(scores[j].breakdown)
        /\ \A j \in 1..(k - 1) : Total(scores[k].breakdown) < Total(scores[j].breakdown)

\* max(self.versions.keys(), key=...): the first key of greatest total
Champion(versions, scores) ==
    CHOOSE k \in 1..Len(versions) :
        /\ \A j \in 1..Len(versions) : Total(scores[j].breakdown) <= Total(scores[k].breakdown)
        /\ \A j \in 1..(k - 1) : Total(scores[j].breakdown) < Total(scores[k].breakdown)

\* for version_key in self.versions: self.evaluate_version(version_key)
RECURSIVE EvaluateFrom(_, _)
EvaluateFrom(versions, k) ==
    IF k > Len(versions) THEN <<>>
    ELSE <<[folder |-> versions[k].folder, breakdown |-> evaluate_version(versions, k)]>>
         \o EvaluateFrom(versions, k + 1)

run_tournament(versions) ==
    IF versions = <<>> THEN TournamentOutcome("ValueError", <<>>, <<>>)
    ELSE LET scores == EvaluateFrom(versions, 1)
         IN IF \E k \in 1..Len(versions) : ~ValidBreakdown(scores[k].breakdown)
            THEN TournamentOutcome("ValidationError", <<>>, <<>>)
            ELSE TournamentOutcome("none", versions[Champion(versions, scores)].folder,
                                   scores)

\* sorted(pairs, key=lambda x: x[1], reverse=True): a stable sort, so entries
\* of one total keep the order they had; `pair` goes behind every entry of a
\* total at least its own
RECURSIVE InsertByTotal(_, _)
InsertByTotal(sorted, pair) ==
    IF sorted = <<>> THEN <<pair>>
    ELSE IF Head(sorted).total >= pair.total
         THEN <<Head(sorted)>> \o InsertByTotal(Tail(sorted), pair)
         ELSE <<pair>> \o sorted

RECURSIVE SortedByTotal(_, _)
SortedByTotal(pairs, k) ==
    IF k = 0 THEN <<>>
    ELSE InsertByTotal(SortedByTotal(pairs, k - 1), pairs[k])

\* (folder, total) of every version but the champion, in the order of the dict
RECURSIVE NonChampionTotals(_, _, _)
NonChampionTotals(scores, champion_folder, k) ==
    IF k > Len(scores) THEN <<>>
    ELSE (IF scores[k].folder # champion_folder
          THEN <<[folder |-> scores[k].folder, total |-> Total(scores[k].breakdown)]>>
          ELSE <<>>)
         \o NonChampionTotals(scores, champion_folder, k + 1)

\* the runners-up left in the order of the dict
runners_up_unsorted(scores, champion_folder) ==
    NonChampionTotals(scores, champion_folder, 1)

runners_up(scores, champion_folder) ==
    LET pairs == NonChampionTotals(scores, champion_folder, 1)
    IN SortedByTotal(pairs, Len(pairs))

\* the TournamentResult run_tournaments builds for one family
FamilyResult(filename, versions, scores, champion_folder) ==
    LET champion == CHOOSE k \in 1..Len(versions) : versions[k].folder = champion_folder
    IN [filename |-> filename,
        champion_folder |-> champion_folder,
        champion_path |-> versions[champion].path,
        champion_score |-> Total(scores[champion].breakdown),
        champion_breakdown |-> scores[champion].breakdown,
        all_scores |-> [k \in 1..Len(scores) |->
                           [folder |-> scores[k].folder,
                            total |-> Total(scores[k].breakdown)]],
        version_count |-> Len(versions),
        runners_up |-> runners_up(scores, champion_folder)]

\* one pass of the loop of run_tournaments: an exception of run_tournament
\* leaves the loop, else the family's result is stored
StoreFamily(acc, filename, versions, outcome) ==
    IF outcome.raised # "none" THEN BatchOutcome(outcome.raised, <<>>)
    ELSE BatchOutcome("none",
             Append(acc.results,
                    FamilyResult(filename, versions, outcome.scores, outcome.champion)))

\* the loop over sorted(version_groups.items()) from the k-th file name on
RECURSIVE TournamentLoop(_, _, _, _)
TournamentLoop(version_groups, filenames, k, acc) ==
    IF k > Len(filenames) \/ acc.raised # "none" THEN acc
    ELSE TournamentLoop(version_groups, filenames, k + 1,
             StoreFamily(acc, filenames[k], version_groups[filenames[k]],
                         run_tournament(version_groups[filenames[k]])))

run_tournaments(version_groups) ==
    IF DOMAIN version_groups = {} THEN BatchOutcome("ValueError", <<>>)
    ELSE TournamentLoop(version_groups, Sorted(DOMAIN version_groups), 1,
                        BatchOutcome("none", <<>>))

\* the filter of group_document_versions: found maps each file name seen in a
\* source folder to its versions; only names with several versions are kept
group_document_versions(found) ==
    [filename \in {f \in DOMAIN found : Len(found[f]) > 1} |-> found[filename]]

\* TournamentEngine.execute: discovery, then the tournaments
execute(found) ==
    IF DOMAIN group_document_versions(found) = {}
    THEN BatchOutcome("ValueError", <<>>)
    ELSE run_tournaments(group_document_versions(found))

\* the dict of results by file name
ByFilename(results) ==
    [filename \in {results[i].filename : i \in 1..Len(results)} |->
        results[CHOOSE i \in 1..Len(results) : results[i].filename = filename]]

\* a call verifier.run_verification(*arguments): the method takes one
\* argument besides self, any other number of them is a TypeError raised
\* before the body runs
call_run_verification(arguments, repository, st) ==
    IF Len(arguments) # 1 THEN BatchOutcome("TypeError", <<>>)
    ELSE run_verification(arguments[1], repository, st)

(***************************************************************************)
(* Bounded inputs                                                          *)
(***************************************************************************)
\* all sequences over S of length at most n
RECURSIVE SeqsUpTo(_, _)
SeqsUpTo(S, n) ==
    IF n = 0 THEN {<<>>}
    ELSE LET shorter == SeqsUpTo(S, n - 1) IN
         shorter \cup {Append(s, x) : s \in {t \in shorter : Len(t) = n - 1}, x \in S}

\* lines the verified documents are made of
V_T == <<"#"," ","T">>
V_A == <<"#","#"," ","A">>
V_A3 == <<"#","#","#"," ","A">>
V_x == <<"x">>
V_blank == <<>>
V_Bad == <<"#","#","B","a","d">>
V_TabA == <<"#","#","\t","A">>
V_B == <<"#","#"," ","B">>
V_B4 == <<"#","#","#","#"," ","B">>
V_y == <<"y">>

VerifierLines == {V_T, V_A, V_A3, V_x, V_blank, V_Bad, V_TabA, EvolutionHeader}

MaxVerifierLines == 3

\* the two documents of the specification's section 8
ExamplePassing == <<V_T, V_A, V_x, V_B, V_y, V_blank>>
ExampleLevelJump == <<V_T, V_A, V_x, V_B4, V_y, V_blank>>

VerifierDocs ==
    {Join(ls) : ls \in SeqsUpTo(VerifierLines, MaxVerifierLines)
                       \cup {ExamplePassing, ExampleLevelJump}}

\* settings.py: the verification toggles, the blank-line maximum (>= 1,
\* default 2) and the integration options, of which the verifier reads
\* add_evolution_metadata; the others stay at their defaults here
MinBlankLines == 1
DefaultBlankLines == 2

VerifierSettings ==
    [check_markdown_formatting : BOOLEAN,
     check_section_numbering : BOOLEAN,
     check_no_duplication : BOOLEAN,
     check_document_navigability : BOOLEAN,
     max_consecutive_blank_lines : {MinBlankLines, DefaultBlankLines},
     add_evolution_metadata : BOOLEAN,
     preserve_source_attribution : {TRUE},
     integrate_citations : {TRUE},
     skip_citation_enhancement : {FALSE}]

(***************************************************************************)
(* Specification of the verifier: one call of verify_document              *)
(***************************************************************************)
InitVerify ==
    /\ settings \in VerifierSettings
    /\ vfile \in {File(c) : c \in VerifierDocs} \cup {Missing, Unreadable}
    /\ vresult = NoResult
    /\ pc = "call"
    /\ IdleUnique /\ IdleIntegrator /\ IdleRepository /\ IdleBatch /\ IdleTournament

VerifyDocument ==
    /\ pc = "call"
    /\ vresult' = verify_document(vfile, settings)
    /\ pc' = "done"
    /\ UNCHANGED <<settings, repo, vfile, unique_vars, integrator_vars, batch_vars, tournament_vars>>

NextVerify == VerifyDocument

SpecVerify == InitVerify /\ [][NextVerify]_vars

(***************************************************************************)
(* Specification of the section diff: one call of find_unique_sections     *)
(***************************************************************************)
E_D == <<"#"," ","D">>
E_S == <<"#","#"," ","S">>
E_s == <<"#","#"," ","s">>
E_New == <<"#","#","#"," ","N","e","w">>
E_a == <<"a">>
E_b == <<"b">>
E_c == <<"c">>
E_content == <<"c","o","n","t","e","n","t">>
E_ppa == <<"+","+","a">>
E_ppb == <<"+","+","b">>
E_ppc == <<"+","+","c">>
E_basic == <<"b","a","s","i","c">>
E_New2 == <<"#","#"," ","N","e","w">>
E_extra == <<"e","x","t","r","a">>

\* sections as lists of lines: an empty one, bodies of three lines, bodies that
\* begin alike, body lines that begin with "++", a title in the other letter
\* case and a deeper section with a title of its own
UniqueSections ==
    { <<E_S>>,
      <<E_S, E_a, E_b, E_c>>,
      <<E_S, E_content>>,
      <<E_S, E_content, E_a, E_b, E_c>>,
      <<E_S, E_ppa, E_ppb, E_ppc>>,
      <<E_s, E_content>>,
      <<E_New, E_a>> }

RECURSIVE Flatten(_)
Flatten(seqs) == IF seqs = <<>> THEN <<>> ELSE Head(seqs) \o Flatten(Tail(seqs))

MaxUniqueSections == 2

\* a document: up to MaxUniqueSections sections, or a title line and at most
\* one section
UniqueDocs ==
    {Join(Flatten(secs)) : secs \in SeqsUpTo(UniqueSections, MaxUniqueSections)}
    \cup {Join(<<E_D>> \o Flatten(secs)) : secs \in SeqsUpTo(UniqueSections, 1)}

\* the champions every other document is compared with; the first two are the
\* pair of the specification's section 8
UniqueChampions ==
    {Join(ls) : ls \in { <<E_D, E_S, E_basic, <<>> >>,
                         <<E_S>>,
                         <<E_S, E_content>>,
                         <<E_S, E_a, E_b, E_c, E_s>>,
                         <<E_D, E_New, E_a, E_S, E_content, E_a, E_b, E_c>> }}

UniqueFolder == <<"q">>

InitUnique ==
    /\ settings \in {s \in VerifierSettings :
                        /\ s.check_markdown_formatting /\ s.check_section_numbering
                        /\ s.check_no_duplication /\ s.check_document_navigability
                        /\ s.add_evolution_metadata
                        /\ s.max_consecutive_blank_lines = DefaultBlankLines}
    /\ pc = "call"
    /\ \/ fus_champion \in UniqueChampions /\ fus_other \in UniqueDocs
       \/ fus_champion \in UniqueDocs /\ fus_other = fus_champion
       \/ /\ fus_champion = Join(<<E_D, E_S, E_basic, <<>> >>)
          /\ fus_other = Join(<<E_D, E_S, E_basic, E_New2, E_extra, <<>> >>)
    /\ fus_result = <<>>
    /\ IdleVerifier /\ IdleIntegrator /\ IdleRepository /\ IdleBatch /\ IdleTournament

FindUniqueSections ==
    /\ pc = "call"
    /\ fus_result' = find_unique_sections(fus_champion, fus_other, UniqueFolder)
    /\ pc' = "done"
    /\ UNCHANGED <<settings, repo, verifier_vars, fus_champion, fus_other, integrator_vars, batch_vars, tournament_vars>>

NextUnique == FindUniqueSections

SpecUnique == InitUnique /\ [][NextUnique]_vars

(***************************************************************************)
(* Specification of the integrator: one call of integrate_document         *)
(***************************************************************************)
G_filename == <<"f">>
G_champion == <<"c">>
G_q == <<"q">>
G_score == 3000
G_p == <<"p">>

G_new == UniqueImprovement("new_section", G_q, "high", <<"N","e","w">>, 2, <<"#","#"," ","N","e","w",NL,"x">>, <<0, 1>>, 0, <<>>, <<>>)
G_rule == UniqueImprovement("new_section", G_p, "high", <<"R","u","l","e">>, 3, <<"#","#","#"," ","R","u","l","e",NL,"-","-","-",NL,"#","#"," ","r">>, <<2, 4>>, 0, <<>>, <<>>)
G_enhanced == UniqueImprovement("enhanced_section", G_q, "medium", <<"s">>, 2, <<"#","#"," ","s",NL,"a",NL,"b",NL,"c">>, <<0, 3>>, 50, <<"+","a",NL,"+","b",NL,"+","c">>, <<>>)
G_citation == UniqueImprovement("citation_enhancement", G_q, "high", <<>>, 0, <<>>, <<>>, 0, <<>>, <<[category |-> "form_i", champion |-> 0, other |-> 1, difference |-> 1]>>)

ImprovementPool == {G_new, G_rule, G_enhanced, G_citation}

MaxImprovements == 2

IntegratorChampions ==
    { <<>>,
      <<"#"," ","D">>,
      <<"#"," ","D",NL,"#","#"," ","S",NL,"a">>,
      <<"#"," ","D",NL,"#","#"," ","S",NL,"a",NL,"#","#"," ","T",NL,"b">>,
      <<"#","#"," ","S",NL,"a",NL,"-","-","-",NL,"f","o","o","t">>,
      <<"-","-","-">>,
      <<"#","#"," ","T",NL,"#","#","#"," ","s",NL,"b",NL,"#","#"," ","U">>,
      <<"*","*","D","o","c","u","m","e","n","t"," ","E","v","o","l","u","t","i","o","n","*","*",NL,"#","#"," ","S">>,
      <<"-","-","-",NL,"#","#"," ","S",NL,"-","-","-",NL,"#","#"," ","D","o","c","u","m","e","n","t"," ","E","v","o","l","u","t","i","o","n">>,
      <<"#","#"," ","A","s",NL,"x",NL,"#","#"," ","S",NL,"a">>,
      <<"#","#"," ","s",NL,"a">> }

\* the version of folder q: with a citation sentence, without one, or absent
IntegratorSources == {File(<<"S","e","e"," ","F","o","r","m"," ","I","-","9",".">>), File(<<"F","o","r","m"," ","I","-","9">>), Missing}

Defaults ==
    [check_markdown_formatting |-> TRUE, check_section_numbering |-> TRUE,
     check_no_duplication |-> TRUE, check_document_navigability |-> TRUE,
     max_consecutive_blank_lines |-> DefaultBlankLines,
     add_evolution_metadata |-> TRUE, preserve_source_attribution |-> TRUE,
     integrate_citations |-> TRUE, skip_citation_enhancement |-> FALSE]

\* the defaults, and each integration option switched on its own
IntegratorSettings ==
    { Defaults,
      [Defaults EXCEPT !.add_evolution_metadata = FALSE],
      [Defaults EXCEPT !.preserve_source_attribution = FALSE],
      [Defaults EXCEPT !.integrate_citations = FALSE],
      [Defaults EXCEPT !.skip_citation_enhancement = TRUE],
      [Defaults EXCEPT !.add_evolution_metadata = FALSE, !.integrate_citations = FALSE] }

Dates == {<<"2","0","2","4","-","0","1","-","3","1">>, <<"2","0","2","4","-","0","2","-","0","1">>}

InitIntegrate ==
    /\ settings \in IntegratorSettings
    /\ pc = "call"
    /\ \E champion \in {File(c) : c \in IntegratorChampions} \cup {Missing, Unreadable},
          source \in IntegratorSources :
           repo = [path \in {PathOf(G_champion, G_filename), PathOf(G_q, G_filename)} |->
                      IF path = PathOf(G_champion, G_filename) THEN champion ELSE source]
    /\ \E improvements \in SeqsUpTo(ImprovementPool, MaxImprovements) :
           int_data = ImprovementData(G_champion, PathOf(G_champion, G_filename),
                                      G_score, improvements)
    /\ int_result = IntegrationOutcome("pending", FALSE, NoIntegrationResult)
    /\ IdleVerifier /\ IdleUnique /\ IdleBatch /\ IdleTournament

IntegrateDocument ==
    /\ pc = "call"
    /\ \E today \in Dates :
           int_result' = integrate_document(G_filename, int_data, repo, settings, today)
    /\ pc' = "done"
    /\ UNCHANGED <<settings, repo, verifier_vars, unique_vars, int_data, batch_vars, tournament_vars>>

NextIntegrate == IntegrateDocument

SpecIntegrate == InitIntegrate /\ [][NextIntegrate]_vars

(***************************************************************************)
(* Specification of the batch stages: run_extraction, then run_integration *)
(* on what it returned, over a repository that can lose a document between *)
(* the two calls                                                           *)
(***************************************************************************)
B_f == <<"f">>
B_g == <<"g">>
B_champion == <<"c">>
B_other == <<"q">>

BatchFilenames == {B_f, B_g}

BatchChampionDocs == {<<"#","#"," ","S">>, <<"#","#"," ","S",NL,"-","-","-",NL,"f","o","o","t">>}
BatchOtherDocs == {<<"#","#"," ","S">>, <<"#","#"," ","S",NL,"#","#"," ","N","e","w",NL,"x">>, <<"#","#"," ","S",NL,"S","e","e"," ","F","o","r","m"," ","I","-","9",".">>}

\* every family was won by folder c against folder q
BatchTournamentResult(filename) ==
    TournamentResult(filename, B_champion, PathOf(B_champion, filename), G_score,
                     <<[folder |-> B_champion, total |-> G_score],
                       [folder |-> B_other, total |-> G_score - 500]>>)

BatchSettings == {Defaults, [Defaults EXCEPT !.integrate_citations = FALSE]}

\* no write fails, the output directory cannot be created, or the write of
\* the first family's output fails
BatchWriteFaults ==
    { [create_directory |-> FALSE, write_document |-> {}],
      [create_directory |-> TRUE, write_document |-> {}],
      [create_directory |-> FALSE, write_document |-> {OutputPath(B_f)}] }

NotRun == BatchOutcome("pending", <<>>)

InitBatch ==
    /\ settings \in BatchSettings
    /\ pc = "extract"
    /\ \E families \in SUBSET BatchFilenames :
           /\ tournament_out = [filename \in families |-> BatchTournamentResult(filename)]
           /\ \E champions \in [families -> {File(c) : c \in BatchChampionDocs}
                                              \cup {Missing, Unreadable}],
                 others \in [families -> {File(c) : c \in BatchOtherDocs}
                                           \cup {Missing, Unreadable}] :
                  repo = [path \in {PathOf(folder, filename) :
                                       folder \in {B_champion, B_other},
                                       filename \in families} |->
                             LET filename == CHOOSE x \in families :
                                     path \in {PathOf(B_champion, x), PathOf(B_other, x)}
                             IN IF path = PathOf(B_champion, filename)
                                THEN champions[filename] ELSE others[filename]]
    /\ faults \in BatchWriteFaults
    /\ extraction = NotRun
    /\ integration = NotRun
    /\ IdleVerifier /\ IdleUnique /\ IdleIntegrator /\ IdleTournament

RunExtraction ==
    /\ pc = "extract"
    /\ extraction' = run_extraction(tournament_out, repo)
    /\ pc' = IF extraction'.raised = "none" THEN "integrate" ELSE "failed"
    /\ UNCHANGED <<settings, repo, verifier_vars, unique_vars, integrator_vars,
                   tournament_out, integration, faults, tournament_vars>>

\* the file system is shared: a champion document disappears before the
\* integration stage reads it
LoseDocument ==
    /\ pc = "integrate"
    /\ \E filename \in DOMAIN tournament_out :
           /\ repo[PathOf(B_champion, filename)].kind = "text"
           /\ repo' = [repo EXCEPT ![PathOf(B_champion, filename)] = Missing]
    /\ UNCHANGED <<settings, pc, verifier_vars, unique_vars, integrator_vars, batch_vars, tournament_vars>>

RunIntegration ==
    /\ pc = "integrate"
    /\ \E today \in Dates :
           LET out == run_integration(extraction.results, repo, settings, today,
                                      faults)
           IN /\ integration' = BatchOutcome(out.raised, out.results)
              /\ repo' = out.repository
              /\ pc' = IF out.raised = "none" THEN "done" ELSE "failed"
    /\ UNCHANGED <<settings, verifier_vars, unique_vars, integrator_vars,
                   tournament_out, extraction, faults, tournament_vars>>

RunVerification ==
    /\ pc = "done"
    /\ vresult' = run_verification(integration.results, repo, settings)
    /\ pc' = IF vresult'.raised = "none" THEN "verified" ELSE "failed"
    /\ UNCHANGED <<settings, repo, vfile, unique_vars, integrator_vars,
                   batch_vars, tournament_vars>>

NextBatch == RunExtraction \/ LoseDocument \/ RunIntegration \/ RunVerification

SpecBatch == InitBatch /\ [][NextBatch]_vars

(***************************************************************************)
(* Specification of the extractor: one call of extract_for_document on a   *)
(* family of up to three versions                                          *)
(***************************************************************************)
\* the order of the folders in all_scores; the champion c is always a key
ExtractOrders ==
    { <<G_champion, G_p, G_q>>, <<G_p, G_champion, G_q>>,
      <<G_q, G_p, G_champion>>, <<G_champion, G_q>> }

ExtractChampionDocs == {<<"#","#"," ","S">>, <<"#","#"," ","S",NL,"S","e","e"," ","F","o","r","m"," ","I","-","9",".">>}

\* a version with nothing new, with a new section, with more form references
\* than either champion, with statute and regulation references, with the
\* title in the other letter case above a case name, and with two references
\* to sections of the INA
ExtractOtherDocs ==
    { <<"#","#"," ","S">>,
      <<"#","#"," ","S",NL,"#","#"," ","N","e","w",NL,"x">>,
      <<"#","#"," ","S",NL,"S","e","e"," ","F","o","r","m"," ","I","-","9","."," ","F","o","r","m"," ","I","-","9","4",".">>,
      <<"#","#"," ","S",NL,"8"," ","U","S","C"," ","1","1","0","1"," ","a","n","d"," ","8"," ","C","F","R"," ","2","1","4">>,
      <<"#","#"," ","s",NL,"M","a","t","t","e","r"," ","o","f"," ","X">>,
      <<"#","#"," ","S",NL,"I","N","A"," ">> \o <<SECT>> \o <<" ","2"," ","a","n","d"," ","I","N","A"," ">> \o <<SECT>> \o <<" ","3">> }

ExtractTournamentResult(order) ==
    TournamentResult(G_filename, G_champion, PathOf(G_champion, G_filename), G_score,
                     [k \in 1..Len(order) |->
                         [folder |-> order[k],
                          total |-> IF order[k] = G_champion THEN G_score
                                    ELSE G_score - 500]])

InitExtract ==
    /\ settings = Defaults
    /\ pc = "call"
    /\ \E order \in ExtractOrders : tournament_out = ExtractTournamentResult(order)
    /\ \E champion \in {File(c) : c \in ExtractChampionDocs} \cup {Missing},
          version_p, version_q \in {File(c) : c \in ExtractOtherDocs}
                                     \cup {Missing, Unreadable} :
           repo = [path \in {PathOf(folder, G_filename) :
                                folder \in {G_champion, G_p, G_q}} |->
                      IF path = PathOf(G_champion, G_filename) THEN champion
                      ELSE IF path = PathOf(G_p, G_filename) THEN version_p
                      ELSE version_q]
    /\ extraction = ExtractionOutcome("pending", FALSE, NoImprovementData)
    /\ integration = <<>>
    /\ faults = <<>>
    /\ IdleVerifier /\ IdleUnique /\ IdleIntegrator /\ IdleTournament

ExtractForDocument ==
    /\ pc = "call"
    /\ extraction' = extract_for_document(tournament_out, repo)
    /\ pc' = "done"
    /\ UNCHANGED <<settings, repo, verifier_vars, unique_vars, integrator_vars,
                   tournament_out, integration, faults, tournament_vars>>

NextExtract == ExtractForDocument

SpecExtract == InitExtract /\ [][NextExtract]_vars

(***************************************************************************)
(* Specification of the tournament: one call of run_tournament             *)
(***************************************************************************)
TournamentFolders == << <<"a">>, <<"b">>, <<"c">>, <<"d">> >>
TournamentFile == <<"f">>

TournamentDocs ==
    { <<>>,
      <<"x">>,
      <<"#"," ","T",NL,"#","#"," ","A",NL,"-"," ","t","h","e","r","e","f","o","r","e">>,
      <<"#"," ","T",NL,"#","#"," ","A",NL,"#","#","#"," ","B",NL,"F","o","r","m"," ","I","-","9"," ","h","o","w","e","v","e","r",NL,"M","a","t","t","e","r"," ","o","f"," ","X">>,
      <<"#","#"," ","A",NL>> \o <<BACKTICK, BACKTICK, BACKTICK>> \o <<NL,"8"," ","C","F","R"," ","v","."," ","I","N","A"," ">> \o <<SECT>> }

ModifiedTimes == {1, 2, 4}

MaxVersions == 2

\* what find_documents builds for the k-th folder
Version(k, content, modified_time) ==
    DocumentMetadata(PathOf(TournamentFolders[k], TournamentFile), TournamentFolders[k],
                     content, CountChar(content, NL) + 1, modified_time)

Cohorts ==
    UNION {[1..n -> TournamentDocs \X ModifiedTimes] : n \in 0..MaxVersions}

InitTournament ==
    /\ settings = Defaults
    /\ pc = "call"
    /\ \E inputs \in Cohorts :
           cohort = [k \in 1..Len(inputs) |-> Version(k, inputs[k][1], inputs[k][2])]
    /\ tournament = TournamentOutcome("pending", <<>>, <<>>)
    /\ IdleVerifier /\ IdleUnique /\ IdleIntegrator /\ IdleRepository /\ IdleBatch

RunTournament ==
    /\ pc = "call"
    /\ tournament' = run_tournament(cohort)
    /\ pc' = "done"
    /\ UNCHANGED <<settings, repo, verifier_vars, unique_vars, integrator_vars,
                   batch_vars, cohort>>

NextTournament == RunTournament

SpecTournament == InitTournament /\ [][NextTournament]_vars

(***************************************************************************)
(* Specification of the entry points: one call of run_tournament,          *)
(* run_tournaments, run_extraction, run_integration or run_verification    *)
(***************************************************************************)
MaxEntryVersions == 3

\* content and modification time of a version
EntryInputs ==
    { <<<<"x">>, 1>>,
      <<<<"#"," ","T",NL,"#","#"," ","A",NL,"-"," ","t","h","e","r","e","f","o","r","e">>, 1>>,
      <<<<"#"," ","T",NL,"#","#"," ","A",NL,"-"," ","t","h","e","r","e","f","o","r","e">>, 2>>,
      <<<<"#"," ","T",NL,"#","#"," ","A",NL,"#","#","#"," ","B",NL,"F","o","r","m"," ","I","-","9"," ","h","o","w","e","v","e","r",NL,"M","a","t","t","e","r"," ","o","f"," ","X">>, 4>> }

EntryCohorts ==
    UNION {[1..n -> EntryInputs] : n \in 0..MaxEntryVersions}

\* what find_documents builds for the k-th folder of a family
EntryVersion(filename, k, content, modified_time) ==
    DocumentMetadata(PathOf(TournamentFolders[k], filename), TournamentFolders[k],
                     content, CountChar(content, NL) + 1, modified_time)

EntryVersions(filename, inputs) ==
    [k \in 1..Len(inputs) |-> EntryVersion(filename, k, inputs[k][1], inputs[k][2])]

\* no family, one family f, or the families f and g with g's versions fixed
EntryGroups ==
    {<<>>}
    \cup {(B_f :> EntryVersions(B_f, inputs)) : inputs \in EntryCohorts}
    \cup {(B_f :> EntryVersions(B_f, inputs)) @@ (B_g :> EntryVersions(B_g, others)) :
             inputs \in {c \in EntryCohorts : Len(c) = 1},
             others \in {c \in EntryCohorts : Len(c) <= 1}}

\* the champion and the other version of family f, and the output of an
\* earlier run
EntryRepositories ==
    { (PathOf(B_champion, B_f) :> champion) @@ (PathOf(B_other, B_f) :> other)
      @@ (OutputPath(B_f) :> output) :
          champion \in {File(<<"#","#"," ","S">>), Missing},
          other \in {File(<<"#","#"," ","S",NL,"#","#"," ","N","e","w",NL,"x">>)},
          output \in {File(<<"#","#"," ","O","l","d">>), Missing} }

EntryTournamentResults == {<<>>, (B_f :> BatchTournamentResult(B_f))}

\* nothing, or what run_extraction found for family f
EntryImprovements ==
    { <<>>,
      <<[filename |-> B_f,
         data |-> ImprovementData(B_champion, PathOf(B_champion, B_f), G_score,
                                  <<G_new>>)]>> }

EntryToday == <<"2","0","2","4","-","0","1","-","3","1">>

NoWriteFaults == [create_directory |-> FALSE, write_document |-> {}]

\* nothing, or what run_integration returned for family f
EntryIntegrationResults ==
    { <<>>,
      <<IntegrationResult(B_f, B_champion, PathOf(B_champion, B_f), 1, 1, 0, 0,
                          <<>>, <<"#","#"," ","O","l","d">>)>> }

\* the frame of the call in progress: the entry point, its argument and the
\* repository as it was on entry
Frame(entry, argument, repository) ==
    [entry |-> entry, argument |-> argument, repository |-> repository]

InitEntry ==
    /\ settings = Defaults
    /\ pc = Frame("none", <<>>, <<>>)
    /\ repo \in EntryRepositories
    /\ cohort = <<>>
    /\ tournament = TournamentOutcome("pending", <<>>, <<>>)
    /\ tournament_out = NotRun
    /\ extraction = NotRun
    /\ integration = NotRun
    /\ faults = NoWriteFaults
    /\ vfile = Missing
    /\ vresult = NotRun
    /\ IdleUnique /\ IdleIntegrator

CallRunTournament ==
    /\ pc.entry = "none"
    /\ \E inputs \in EntryCohorts :
           /\ pc' = Frame("run_tournament", EntryVersions(B_f, inputs), repo)
           /\ tournament' = run_tournament(EntryVersions(B_f, inputs))
    /\ UNCHANGED <<settings, repo, verifier_vars, unique_vars, integrator_vars,
                   batch_vars, cohort>>

CallRunTournaments ==
    /\ pc.entry = "none"
    /\ \E version_groups \in EntryGroups :
           /\ pc' = Frame("run_tournaments", version_groups, repo)
           /\ tournament_out' = run_tournaments(version_groups)
    /\ UNCHANGED <<settings, repo, verifier_vars, unique_vars, integrator_vars,
                   extraction, integration, faults, tournament_vars>>

CallRunExtraction ==
    /\ pc.entry = "none"
    /\ \E tournament_results \in EntryTournamentResults :
           /\ pc' = Frame("run_extraction", tournament_results, repo)
           /\ extraction' = run_extraction(tournament_results, repo)
    /\ UNCHANGED <<settings, repo, verifier_vars, unique_vars, integrator_vars,
                   tournament_out, integration, faults, tournament_vars>>

\* the outcome of run_integration and the repository its writes leave
Integrated(out) ==
    /\ integration' = BatchOutcome(out.raised, out.results)
    /\ repo' = out.repository

CallRunIntegration ==
    /\ pc.entry = "none"
    /\ \E unique_improvements \in EntryImprovements :
           /\ pc' = Frame("run_integration", unique_improvements, repo)
           /\ Integrated(run_integration(unique_improvements, repo, settings,
                                         EntryToday, faults))
    /\ UNCHANGED <<settings, verifier_vars, unique_vars, integrator_vars,
                   tournament_out, extraction, faults, tournament_vars>>

CallRunVerification ==
    /\ pc.entry = "none"
    /\ \E integration_results \in EntryIntegrationResults :
           /\ pc' = Frame("run_verification", integration_results, repo)
           /\ vresult' = run_verification(integration_results, repo, settings)
    /\ UNCHANGED <<settings, repo, vfile, unique_vars, integrator_vars,
                   batch_vars, tournament_vars>>

NextEntry ==
    \/ CallRunTournament
    \/ CallRunTournaments
    \/ CallRunExtraction
    \/ CallRunIntegration
    \/ CallRunVerification

SpecEntry == InitEntry /\ [][NextEntry]_vars

(***************************************************************************)
(* Specification of the command full of cli.py: the four phases on the     *)
(* documents found in the source folders                                   *)
(***************************************************************************)
MaxFullVersions == 3

\* content and modification time of a version: those of the entry points and
\* a short version with a section of its own
FullInputs ==
    EntryInputs \cup { <<<<"#","#"," ","N",NL,"x">>, 1>> }

FullCohorts == UNION {[1..n -> FullInputs] : n \in 1..MaxFullVersions}

\* the output directory listed among the source folders: a document of that
\* folder that carries the prefix of the output files
StoredInOutputDir(filename) ==
    DocumentMetadata(OutputPath(filename), OutputDir, <<"#","#"," ","K","e","p","t">>, 1, 1)

\* a file that has the name of the first source folder
FullNamesake == TournamentFolders[1]

\* what the source folders hold: nothing, the versions of file f, two
\* versions of f beside two versions of g, two versions of f beside a
\* document of the output directory, or two versions of the namesake
FullFound ==
    {<<>>}
    \cup {(B_f :> EntryVersions(B_f, inputs)) : inputs \in FullCohorts}
    \cup {(B_f :> EntryVersions(B_f, inputs))
          @@ (B_g :> EntryVersions(B_g, << <<<<"#"," ","T",NL,"#","#"," ","A",NL,"-"," ","t","h","e","r","e","f","o","r","e">>, 2>>, <<<<"#","#"," ","N",NL,"x">>, 1>> >>)) :
             inputs \in {c \in FullCohorts : Len(c) = 2}}
    \cup {(B_f :> EntryVersions(B_f, inputs))
          @@ (OutputPrefix \o B_f :> <<StoredInOutputDir(B_f)>>) :
             inputs \in {c \in FullCohorts : Len(c) = 2}}
    \cup {(FullNamesake :> EntryVersions(FullNamesake, inputs)) :
             inputs \in {c \in FullCohorts : Len(c) = 2}}

FoundVersions(found) ==
    UNION {{found[f][k] : k \in 1..Len(found[f])} : f \in DOMAIN found}

\* the files behind the versions found
FullRepository(found) ==
    [path \in {v.path : v \in FoundVersions(found)} |->
        File((CHOOSE v \in FoundVersions(found) : v.path = path).content)]

InitFull ==
    /\ settings = Defaults
    /\ pc = "phase_1"
    /\ cohort \in FullFound
    /\ repo = FullRepository(cohort)
    /\ tournament = <<>>
    /\ tournament_out = NotRun
    /\ extraction = NotRun
    /\ integration = NotRun
    /\ faults = NoWriteFaults
    /\ vfile = Missing
    /\ vresult = NotRun
    /\ IdleUnique /\ IdleIntegrator

\* Phase 1: engine.execute()
Phase1Tournament ==
    /\ pc = "phase_1"
    /\ tournament_out' = execute(cohort)
    /\ pc' = IF tournament_out'.raised = "none" THEN "phase_2" ELSE "exit_1"
    /\ UNCHANGED <<settings, repo, verifier_vars, unique_vars, integrator_vars,
                   extraction, integration, faults, tournament_vars>>

\* Phase 2: extractor.run_extraction(tournament_results)
Phase2Extraction ==
    /\ pc = "phase_2"
    /\ extraction' = run_extraction(ByFilename(tournament_out.results), repo)
    /\ pc' = IF extraction'.raised = "none" THEN "phase_3" ELSE "exit_1"
    /\ UNCHANGED <<settings, repo, verifier_vars, unique_vars, integrator_vars,
                   tournament_out, integration, faults, tournament_vars>>

\* Phase 3: integrator.run_integration(extraction_results)
Phase3Integration ==
    /\ pc = "phase_3"
    /\ \E today \in Dates :
           Integrated(run_integration(extraction.results, repo, settings, today, faults))
    /\ pc' = IF integration'.raised = "none" THEN "phase_4" ELSE "exit_1"
    /\ UNCHANGED <<settings, verifier_vars, unique_vars, integrator_vars,
                   tournament_out, extraction, faults, tournament_vars>>

\* Phase 4: verifier.run_verification(integration_results, tournament_results),
\* then the summary; any exception ends the command with sys.exit(1)
Phase4Verification ==
    /\ pc = "phase_4"
    /\ vresult' = call_run_verification(<<integration.results, tournament_out.results>>,
                                        repo, settings)
    /\ pc' = IF vresult'.raised = "none" THEN "exit_0" ELSE "exit_1"
    /\ UNCHANGED <<settings, repo, vfile, unique_vars, integrator_vars,
                   batch_vars, tournament_vars>>

NextFull ==
    \/ Phase1Tournament
    \/ Phase2Extraction
    \/ Phase3Integration
    \/ Phase4Verification

SpecFull == InitFull /\ [][NextFull]_vars

(***************************************************************************)
(* Properties of the verifier                                              *)
(***************************************************************************)
Verified == vresult.raised = "none"

VLines == Split(vfile.content)

RECURSIVE CountType(_, _)
CountType(issues, t) ==
    IF issues = <<>> THEN 0
    ELSE (IF Head(issues).type = t THEN 1 ELSE 0) + CountType(Tail(issues), t)

AllChecksEnabled ==
    /\ settings.check_markdown_formatting
    /\ settings.check_section_numbering
    /\ settings.check_no_duplication
    /\ settings.check_document_navigability

\* C8: verify_document returns passed = true exactly when the four checks
\* together produce no issue, and a check whose toggle is disabled contributes
\* no issue whatever the document contains.
C8_PassedIffNoIssues ==
    Verified =>
        /\ vresult.passed <=>
              ( /\ verify_markdown_formatting(vfile.content, settings) = <<>>
                /\ verify_section_numbering(vfile.content, settings) = <<>>
                /\ verify_no_duplication(vfile.content, settings) = <<>>
                /\ verify_document_navigability(vfile.content, settings) = <<>> )
        /\ vresult.passed <=> (vresult.issues = <<>>)
        /\ ~settings.check_markdown_formatting
              => CountType(vresult.issues, "formatting") = 0
        /\ ~settings.check_section_numbering
              => CountType(vresult.issues, "numbering") = 0
        /\ ~settings.check_no_duplication
              => CountType(vresult.issues, "duplication") = 0
        /\ ~settings.check_document_navigability
              => CountType(vresult.issues, "navigation") = 0

\* a document with a malformed header passes once the formatting check is off
C8_Witness ==
    /\ Verified
    /\ ~settings.check_markdown_formatting
    /\ settings.check_no_duplication
    /\ \E i \in 1..Len(VLines) : VLines[i] = V_Bad
    /\ vresult.passed

\* the preconditions C9 puts on the document, stated on its lines
OnlyWellFormedHeaders(lines) ==
    \A i \in 1..Len(lines) : StartsWith(lines[i], <<HASH>>) => HeaderRe(lines[i], 1)

NoBlankRunAbove(lines, max) ==
    ~\E i \in 1..(Len(lines) - max) : \A j \in i..(i + max) : Strip(lines[j]) = <<>>

\* the title of a line that opens with "##" is what follows those two characters
NoRepeatedTitle(lines) ==
    \A i, j \in 1..Len(lines) :
        ( /\ i < j
          /\ StartsWith(lines[i], <<HASH, HASH>>)
          /\ StartsWith(lines[j], <<HASH, HASH>>) )
        => Strip(From(lines[i], 2)) # Strip(From(lines[j], 2))

IsHeader(line) == HeaderRe(line, 2)

NoLevelJump(lines) ==
    \A j \in 1..Len(lines) :
        IsHeader(lines[j]) =>
            IF \E i \in 1..(j - 1) : IsHeader(lines[i])
            THEN LET i == CHOOSE k \in 1..(j - 1) :
                              /\ IsHeader(lines[k])
                              /\ \A m \in (k + 1)..(j - 1) : ~IsHeader(lines[m])
                 IN HeaderLevel(lines[j]) <= HeaderLevel(lines[i]) + 1
            ELSE HeaderLevel(lines[j]) <= 2

\* a level-2 header line: exactly two hashes, a space, a title ("## A")
HasLevel2Header(lines) ==
    \E i \in 1..Len(lines) :
        IsHeader(lines[i]) /\ HeaderLevel(lines[i]) = 2 /\ lines[i][3] = " "

CleanDocument(lines) ==
    /\ OnlyWellFormedHeaders(lines)
    /\ NoBlankRunAbove(lines, settings.max_consecutive_blank_lines)
    /\ NoRepeatedTitle(lines)
    /\ NoLevelJump(lines)

C10_NavigationIffNoLevel2Header ==
    (Verified /\ settings.check_document_navigability)
    => CountType(vresult.issues, "navigation")
         = (IF HasLevel2Header(VLines) THEN 0 ELSE 1)

\* the line numbers of the issues of one type, in the order reported
RECURSIVE IssueLines(_, _)
IssueLines(issues, t) ==
    IF issues = <<>> THEN <<>>
    ELSE (IF Head(issues).type = t THEN <<Head(issues).line_number>> ELSE <<>>)
         \o IssueLines(Tail(issues), t)

\* a header line of any level, "# T" included
IsAnyHeader(line) == HeaderRe(line, 1)

\* line j is a header more than one level deeper than the header before it
LevelJumpAt(lines, j) ==
    /\ IsAnyHeader(lines[j])
    /\ \E i \in 1..(j - 1) :
           /\ IsAnyHeader(lines[i])
           /\ \A m \in (i + 1)..(j - 1) : ~IsAnyHeader(lines[m])
           /\ HeaderLevel(lines[j]) > HeaderLevel(lines[i]) + 1

\* the lines of a jump, ascending
RECURSIVE LevelJumpsFrom(_, _)
LevelJumpsFrom(lines, j) ==
    IF j > Len(lines) THEN <<>>
    ELSE (IF LevelJumpAt(lines, j) THEN <<j>> ELSE <<>>) \o LevelJumpsFrom(lines, j + 1)

\* C11: walking the headers in order, verify_section_numbering reports one
\* numbering issue for each header whose level exceeds the level of the header
\* before it by more than one, with the 1-based line number of that header,
\* and nothing else; "# T", "## A", "x", "#### B", "y" yields one issue, on
\* line 4.
C11_NumberingIssuesAreLevelJumps ==
    (Verified /\ settings.check_section_numbering)
    => /\ IssueLines(vresult.issues, "numbering") = LevelJumpsFrom(VLines, 1)
       /\ vfile.content = Join(ExampleLevelJump)
             => IssueLines(vresult.issues, "numbering") = <<4>>

\* a level-2 header line ("## A") and its title
IsLevel2Header(line) == HeaderRe(line, 2) /\ HeaderLevel(line) = 2

Level2Title(line) == Strip(HeaderGroup2(line))

\* line j is a level-2 header whose title an earlier level-2 header carries
RepeatsLevel2Title(lines, j) ==
    /\ IsLevel2Header(lines[j])
    /\ \E i \in 1..(j - 1) :
           IsLevel2Header(lines[i]) /\ Level2Title(lines[i]) = Level2Title(lines[j])

RECURSIVE RepeatsFrom(_, _)
RepeatsFrom(lines, j) ==
    IF j > Len(lines) THEN <<>>
    ELSE (IF RepeatsLevel2Title(lines, j) THEN <<j>> ELSE <<>>) \o RepeatsFrom(lines, j + 1)

\* C12: verify_no_duplication reports one duplication issue for every level-2
\* header whose title already occurred in an earlier level-2 header (a title
\* occurring n times yields n-1 issues), and no issue for a document whose
\* level-2 titles are pairwise distinct.
C12_DuplicationIssuesAreRepeatedLevel2Titles ==
    (Verified /\ settings.check_no_duplication)
    => /\ IssueLines(vresult.issues, "duplication") = RepeatsFrom(VLines, 1)
       /\ RepeatsFrom(VLines, 1) = <<>>
             => CountType(vresult.issues, "duplication") = 0

(***************************************************************************)
(* Properties of extract_sections (SpecUnique)                             *)
(***************************************************************************)
\* the lines (counted from 1) that match the header pattern of the parser
SectionHeaders(lines) == {j \in 1..Len(lines) : HeaderRe(lines[j], 2)}

\* the n-th of them in document order
NthHeader(lines, n) ==
    CHOOSE j \in SectionHeaders(lines) :
        Cardinality({i \in SectionHeaders(lines) : i < j}) = n - 1

\* the last line (counted from 1) of the section that starts at the n-th header
SectionEnd(lines, n) ==
    IF n = Cardinality(SectionHeaders(lines)) THEN Len(lines)
    ELSE NthHeader(lines, n + 1) - 1

\* sections is the parse of content the contract describes; line_start and
\* line_end count from 0
ParsedByHeaders(content, sections) ==
    LET lines == Split(content) IN
    /\ Len(sections) = Cardinality(SectionHeaders(lines))
    /\ \A n \in 1..Len(sections) :
           LET first == NthHeader(lines, n)
               last == SectionEnd(lines, n)
           IN /\ sections[n].line_start = first - 1
              /\ sections[n].line_end = last - 1
              /\ sections[n].content = Join(SubSeq(lines, first, last))
              /\ sections[n].level = HeaderLevel(lines[first])
              /\ sections[n].title = Strip(HeaderGroup2(lines[first]))
              /\ \A j \in (first + 1)..last : ~HeaderRe(lines[j], 2)
    /\ \A n \in 1..(Len(sections) - 1) :
           sections[n].line_end < sections[n + 1].line_start
    /\ \A j \in 1..Len(lines) :
           (\A i \in SectionHeaders(lines) : j < i)
           => \A n \in 1..Len(sections) : j - 1 < sections[n].line_start

\* C16: extract_sections returns the sections in document order, one per
\* header line; each section starts at its header line and ends at the line
\* before the next header of any level (or at the last line of the document),
\* so sections never overlap, the first line of a section's content is its
\* header and no other header line lies inside it, and lines before the first
\* header belong to no section.
C16_SectionsSpanHeaderToNextHeader ==
    pc = "done"
    => /\ ParsedByHeaders(fus_champion, extract_sections(fus_champion))
       /\ ParsedByHeaders(fus_other, extract_sections(fus_other))

\* the champion has a title line before its first header; the other document
\* has two sections, the first of several lines and ended by the second
C16_Witness ==
    /\ pc = "done"
    /\ Len(extract_sections(fus_champion)) = 1
    /\ extract_sections(fus_champion)[1].line_start = 1
    /\ Len(extract_sections(fus_other)) = 2
    /\ extract_sections(fus_other)[1].line_end > 1
    /\ extract_sections(fus_other)[2].line_start
           = extract_sections(fus_other)[1].line_end + 1

(***************************************************************************)
(* Properties of find_unique_sections (SpecUnique)                         *)
(***************************************************************************)
Compared == pc = "done"

ChampionSections == extract_sections(fus_champion)
OtherSections == extract_sections(fus_other)

\* the improvements of the given type reported for a section, identified by
\* the lines the section spans in the other document
ReportedAs(type, section) ==
    {i \in 1..Len(fus_result) :
        /\ fus_result[i].type = type
        /\ fus_result[i].lines = <<section.line_start, section.line_end>>}

\* the champion sections whose title equals the section's, letter case ignored
SameTitle(section) ==
    {i \in 1..Len(ChampionSections) :
        Lower(ChampionSections[i].title) = Lower(section.title)}

\* C3: comparing a document with itself yields no improvement.
C3_IdenticalContentYieldsNothing ==
    (Compared /\ fus_other = fus_champion) => fus_result = <<>>

\* C4: a section of the other document is reported as new_section, with value
\* high, exactly when no champion section has its title compared
\* case-insensitively; in particular a title that differs from a champion
\* title only in letter case is never reported as new_section.
C4_NewSectionIffTitleAbsent ==
    Compared =>
        \A k \in 1..Len(OtherSections) :
            LET section == OtherSections[k] IN
            /\ (ReportedAs("new_section", section) # {}) <=> (SameTitle(section) = {})
            /\ \A i \in ReportedAs("new_section", section) :
                   fus_result[i].value = "high" /\ fus_result[i].title = section.title

\* both sides of C4 happen in one comparison: a section renamed only in letter
\* case is not reported, a section with an absent title is
C4_Witness ==
    /\ Compared
    /\ \E k \in 1..Len(OtherSections) :
           /\ SameTitle(OtherSections[k]) # {}
           /\ \A i \in SameTitle(OtherSections[k]) :
                  ChampionSections[i].title # OtherSections[k].title
           /\ ReportedAs("new_section", OtherSections[k]) = {}
    /\ \E k \in 1..Len(OtherSections) :
           /\ SameTitle(OtherSections[k]) = {}
           /\ ReportedAs("new_section", OtherSections[k]) # {}

\* the number of lines the line diff from a to b introduces
IntroducedLines(a, b) ==
    LET body == DiffBody(a, b, 1, Len(a), 1, Len(b))
    IN Cardinality({i \in 1..Len(body) : Head(body[i]) = "+"})

\* C5: a section whose title matches one champion section is reported as
\* enhanced_section exactly when the similarity ratio of the two sections is
\* below 0.8 and the line diff introduces at least 3 lines; otherwise nothing
\* at all is reported for the section.
C5_EnhancedIffBelowThresholdAndThreeLines ==
    Compared =>
        \A k \in 1..Len(OtherSections) :
            LET section == OtherSections[k] IN
            Cardinality(SameTitle(section)) = 1 =>
                LET champion_section ==
                        ChampionSections[CHOOSE i \in SameTitle(section) : TRUE]
                    r == ratio(champion_section.content, section.content)
                    qualifies ==
                        /\ 10 * r[1] < 8 * r[2]
                        /\ IntroducedLines(SplitLines(champion_section.content),
                                           SplitLines(section.content)) >= 3
                IN /\ (ReportedAs("enhanced_section", section) # {}) <=> qualifies
                   /\ ~qualifies =>
                          \A i \in 1..Len(fus_result) :
                              fus_result[i].lines # <<section.line_start, section.line_end>>

(***************************************************************************)
(* Properties of integrate_document (SpecIntegrate)                        *)
(***************************************************************************)
IntegrationReturned ==
    pc = "done" /\ int_result.raised = "none" /\ int_result.returned

ChampionText == Stored(repo, int_data.champion_path).content

\* a is b with some elements left out, the order kept
RECURSIVE SubsequenceFrom(_, _, _, _)
SubsequenceFrom(a, b, i, j) ==
    IF i > Len(a) THEN TRUE
    ELSE IF j > Len(b) THEN FALSE
    ELSE IF a[i] = b[j] THEN SubsequenceFrom(a, b, i + 1, j + 1)
    ELSE SubsequenceFrom(a, b, i, j + 1)

IsSubsequence(a, b) == SubsequenceFrom(a, b, 1, 1)

\* C1: when integrate_document returns a result, the lines of the original
\* champion text all occur in integrated_content, in their original order.
C1_ChampionLinesPreserved ==
    IntegrationReturned =>
        IsSubsequence(Split(ChampionText), Split(int_result.result.integrated_content))

\* two improvements went in, one of them between lines of the champion
C1_Witness ==
    /\ IntegrationReturned
    /\ int_result.result.improvements_integrated >= 2
    /\ Len(Split(ChampionText)) >= 3
    /\ ~StartsWith(int_result.result.integrated_content, ChampionText)
    /\ IsSubsequence(Split(ChampionText), Split(int_result.result.integrated_content))

OnlyCitationEnhancements ==
    /\ int_data.improvements # <<>>
    /\ \A i \in 1..Len(int_data.improvements) :
           int_data.improvements[i].type = "citation_enhancement"

\* C6: integrate_document returns a result exactly when something was
\* integrated into the text: a family with a section improvement gets one, a
\* family whose only improvements are citation enhancements gets none when
\* citation integration is disabled, and a returned text differs from the
\* champion's (seen with the evolution footer switched off).
C6_ResultIffSomethingIntegrated ==
    (pc = "done" /\ int_result.raised = "none") =>
        /\ (int_data.improvements # <<>> /\ ~OnlyCitationEnhancements)
               => int_result.returned
        /\ (OnlyCitationEnhancements /\ ~settings.integrate_citations)
               => ~int_result.returned
        /\ (int_result.returned /\ ~settings.add_evolution_metadata)
               => int_result.result.integrated_content # ChampionText

\* the new_section improvements handed to integrate_document
NewSections ==
    {int_data.improvements[i] : i \in {j \in 1..Len(int_data.improvements) :
                                          int_data.improvements[j].type = "new_section"}}

\* the 0-based index of the last line that satisfies Marker, the number of
\* lines when there is none
LastMarked(lines, Marker(_)) ==
    IF \E i \in 1..Len(lines) : Marker(lines[i])
    THEN (CHOOSE i \in 1..Len(lines) :
              /\ Marker(lines[i])
              /\ \A j \in (i + 1)..Len(lines) : ~Marker(lines[j])) - 1
    ELSE Len(lines)

\* a horizontal rule, or the header add_evolution_metadata writes and the
\* verifier looks for
RuleOrEvolutionHeader(line) ==
    StartsWith(line, <<"-","-","-">>) \/ StartsWith(line, <<"#","#"," ","D","o","c","u","m","e","n","t"," ","E","v","o","l","u","t","i","o","n">>)

\* a horizontal rule, or the bold marker
RuleOrBoldEvolution(line) ==
    StartsWith(line, <<"-","-","-">>) \/ StartsWith(line, <<"*","*","D","o","c","u","m","e","n","t"," ","E","v","o","l","u","t","i","o","n">>)

\* the family's only improvement is of the type and no footer is added: the
\* returned text is the champion's with the block put in at the index
OnlyBlockInsertedAt(type, index) ==
    (/\ Len(int_data.improvements) = 1
     /\ int_data.improvements[1].type = type
     /\ ~settings.add_evolution_metadata)
    => int_result.result.integrated_content
           = Join(SubSeq(Split(ChampionText), 1, index)
                  \o <<format_improvement(int_data.improvements[1],
                                          int_data.improvements[1].source_folder,
                                          settings)>>
                  \o SubSeq(Split(ChampionText), index + 1, Len(Split(ChampionText))))

\* C21 as stated: for a new_section improvement find_insertion_point returns
\* the index of the first line, scanning backward from the end, that begins a
\* horizontal rule or an evolution-metadata header, and the line count when no
\* such line exists; the block is inserted immediately before that line.
C21_InsertedBeforeRuleOrEvolutionHeader ==
    IntegrationReturned
    => /\ \A improvement \in NewSections :
              find_insertion_point(ChampionText, improvement)
                  = LastMarked(Split(ChampionText), RuleOrEvolutionHeader)
       /\ OnlyBlockInsertedAt("new_section", LastMarked(Split(ChampionText), RuleOrEvolutionHeader))

\* C21: for a new_section improvement find_insertion_point returns the index
\* of the first line, scanning backward from the end, that starts with '---'
\* or with '**Document Evolution', and the line count when no such line
\* exists; the block is inserted immediately before that line.  The header
\* '## Document Evolution' is not a marker.
C21_InsertedBeforeLastRuleOrBoldMarker ==
    IntegrationReturned
    => /\ \A improvement \in NewSections :
              find_insertion_point(ChampionText, improvement)
                  = LastMarked(Split(ChampionText), RuleOrBoldEvolution)
       /\ OnlyBlockInsertedAt("new_section", LastMarked(Split(ChampionText), RuleOrBoldEvolution))

\* a new section went in before the second of two rules, above the header of
\* an evolution footer
C21_Witness ==
    /\ IntegrationReturned
    /\ ~settings.add_evolution_metadata
    /\ int_data.improvements = <<G_new>>
    /\ ChampionText = <<"-","-","-",NL,"#","#"," ","S",NL,"-","-","-",NL,"#","#"," ","D","o","c","u","m","e","n","t"," ","E","v","o","l","u","t","i","o","n">>
    /\ find_insertion_point(ChampionText, G_new) = 2

\* the lines (counted from 1) that are level-2 headers of the title, letter
\* case apart
TitledLevel2(lines, title) ==
    {i \in 1..Len(lines) :
        IsLevel2Header(lines[i]) /\ Lower(Level2Title(lines[i])) = Lower(title)}

\* the 0-based index of the first header of any level after line i, the
\* number of lines when the section that starts at line i is the last one
EndOfSection(lines, i) ==
    IF \E j \in (i + 1)..Len(lines) : IsAnyHeader(lines[j])
    THEN (CHOOSE j \in (i + 1)..Len(lines) :
              /\ IsAnyHeader(lines[j])
              /\ \A m \in (i + 1)..(j - 1) : ~IsAnyHeader(lines[m])) - 1
    ELSE Len(lines)

\* the enhanced_section improvements whose section the champion text holds
\* under a level-2 header
EnhancedSections ==
    {int_data.improvements[i] : i \in {j \in 1..Len(int_data.improvements) :
        /\ int_data.improvements[j].type = "enhanced_section"
        /\ TitledLevel2(Split(ChampionText), int_data.improvements[j].title) # {}}}

\* where the block of such an improvement belongs: after the first section of
\* its title
AfterTitledSection(improvement) ==
    EndOfSection(Split(ChampionText),
                 CHOOSE i \in TitledLevel2(Split(ChampionText), improvement.title) :
                     \A m \in TitledLevel2(Split(ChampionText), improvement.title) : i <= m)

\* C22: for an enhanced_section improvement, the block is inserted directly
\* after the section whose level-2 header title equals the improvement's title
\* case-insensitively: at the line of the next header of any level after that
\* header, or at end of document when that section is the last one; the lines
\* of the existing section are left unchanged.
C22_InsertedAfterTitledSection ==
    IntegrationReturned
    => \A improvement \in EnhancedSections :
           /\ find_insertion_point(ChampionText, improvement)
                  = AfterTitledSection(improvement)
           /\ OnlyBlockInsertedAt("enhanced_section", AfterTitledSection(improvement))

\* the new_section and enhanced_section improvements handed to
\* integrate_document
SectionImprovementsGiven ==
    {int_data.improvements[i] : i \in {j \in 1..Len(int_data.improvements) :
        int_data.improvements[j].type \in {"new_section", "enhanced_section"}}}

\* the source section's header line: as many '#' as its level, a space, its title
OriginalHeader(improvement) ==
    [i \in 1..improvement.level |-> "#"] \o <<" ">> \o improvement.title

\* a blank line, the header, the attribution if enabled, a blank line, the
\* body without its header line, a blank line
BlockOf(improvement) ==
    Join(<< <<>>, OriginalHeader(improvement) >>
         \o (IF settings.preserve_source_attribution
             THEN <<Attribution(improvement.source_folder)>> ELSE <<>>)
         \o << <<>> >>
         \o Tail(Split(improvement.content))
         \o << <<>> >>)

\* C23: the block that format_improvement builds for a new_section or
\* enhanced_section consists, in this order, of: a blank line, the source
\* section's original header line (same header level and title), the
\* attribution line naming the source folder if and only if attribution is
\* enabled, a blank line, the section body without its header line, and a
\* trailing blank line.
C23_BlockKeepsHeaderAndLayout ==
    pc = "done"
    => \A improvement \in SectionImprovementsGiven :
           format_improvement(improvement, improvement.source_folder, settings)
               = BlockOf(improvement)

\* the improvements of one type, in their original relative order
OfType(type) == SelectSeq(int_data.improvements, LAMBDA x : x.type = type)

\* the text after one section improvement went in at the insertion point
\* computed on the text as it is
WithSection(text, improvement) ==
    Join(Insert(Split(text), find_insertion_point(text, improvement),
                format_improvement(improvement, improvement.source_folder, settings)))

\* the text after the second pass handled one citation enhancement
WithCitations(text, improvement, source) ==
    IF settings.skip_citation_enhancement \/ source.kind # "text"
       \/ extract_citations_from_improvement(improvement, source.content) = <<>>
    THEN text
    ELSE integrate_citations(text,
             extract_citations_from_improvement(improvement, source.content),
             improvement.source_folder, settings)

\* the improvements applied one after the other from the k-th on, each to the
\* text the one before produced
RECURSIVE AppliedInTurn(_, _, _)
AppliedInTurn(improvements, k, text) ==
    IF k > Len(improvements) THEN text
    ELSE AppliedInTurn(improvements, k + 1,
             IF improvements[k].type = "citation_enhancement"
             THEN WithCitations(text, improvements[k],
                      Stored(repo, PathOf(improvements[k].source_folder, G_filename)))
             ELSE WithSection(text, improvements[k]))

\* C24: within one family's integration, improvements are applied in this
\* order: all enhanced_section entries in their original relative order, then
\* all new_section entries in their original relative order, then, in a second
\* pass, all citation_enhancement entries in their original relative order;
\* each insertion point is computed on the text produced by the previous
\* insertion.  The evolution footer, if any, follows the text so produced.
C24_EnhancedThenNewThenCitations ==
    IntegrationReturned
    => \E today \in Dates :
           int_result.result.integrated_content
               = add_evolution_metadata(ChampionText,
                     AppliedInTurn(OfType("enhanced_section") \o OfType("new_section")
                                       \o OfType("citation_enhancement"),
                                   1, ChampionText),
                     int_data.improvements, settings, today)

\* a new section listed before an enhancement of the champion's last section:
\* the enhancement went in first, the new section behind it
C24_Witness ==
    /\ IntegrationReturned
    /\ int_data.improvements = <<G_new, G_enhanced>>
    /\ ChampionText = <<"#"," ","D",NL,"#","#"," ","S",NL,"a">>
    /\ int_result.result.improvements_integrated = 2
    /\ ~settings.add_evolution_metadata
    /\ int_result.result.integrated_content
           = WithSection(WithSection(ChampionText, G_enhanced), G_new)
    /\ int_result.result.integrated_content
           # WithSection(WithSection(ChampionText, G_new), G_enhanced)

\* the improvements that went into the text: every section improvement, and
\* every citation enhancement for which citation sentences were found
WentIn(improvement) ==
    \/ improvement.type # "citation_enhancement"
    \/ /\ ~settings.skip_citation_enhancement
       /\ Stored(repo, PathOf(improvement.source_folder, G_filename)).kind = "text"
       /\ extract_citations_from_improvement(improvement,
              Stored(repo, PathOf(improvement.source_folder, G_filename)).content) # <<>>

IntegratedFrom(folder) ==
    {i \in 1..Len(int_data.improvements) :
        /\ int_data.improvements[i].source_folder = folder
        /\ WentIn(int_data.improvements[i])}

\* C25: what is reported for a family counts only improvements that were
\* integrated: the footer's 'Improvements Integrated' number equals
\* improvements_integrated, and the footer's per-folder tally and
\* source_folders name only folders from which an improvement was integrated.
C25_ReportsOnlyIntegrated ==
    IntegrationReturned
    => /\ \A folder \in int_result.result.source_folders : IntegratedFrom(folder) # {}
       /\ settings.add_evolution_metadata
          => LET lines == Split(int_result.result.integrated_content) IN
             /\ \E i \in 1..Len(lines) :
                    lines[i] = <<"*","*","I","m","p","r","o","v","e","m","e","n","t","s"," ","I","n","t","e","g","r","a","t","e","d","*","*",":"," ">>
                                   \o ToDigits(int_result.result.improvements_integrated)
             /\ \A folder \in {G_p, G_q} :
                    \A i \in 1..Len(lines) :
                        StartsWith(lines[i], <<"-"," ">> \o folder \o <<":"," ">>)
                        => /\ IntegratedFrom(folder) # {}
                           /\ lines[i] = <<"-"," ">> \o folder \o <<":"," ">>
                                  \o ToDigits(Cardinality(IntegratedFrom(folder)))
                                  \o <<" ","i","m","p","r","o","v","e","m","e","n","t","s">>

\* the lines of block stand next to each other, in their order, in lines
Contiguous(block, lines) ==
    \E k \in 0..(Len(lines) - Len(block)) :
        SubSeq(lines, k + 1, k + Len(block)) = block

\* C27: once a block has been inserted, no later insertion of the same pass
\* splits it: in the final integrated text the lines of every inserted block
\* are adjacent and in their original order, whatever the block bodies
\* contain.
C27_BlocksStayWhole ==
    IntegrationReturned
    => \A i \in 1..Len(int_data.improvements) :
           int_data.improvements[i].type # "citation_enhancement"
           => Contiguous(Split(format_improvement(int_data.improvements[i],
                                       int_data.improvements[i].source_folder, settings)),
                         Split(int_result.result.integrated_content))

\* the enhancements of a champion section whose level-2 header carries
\* exactly the title of the improvement
EnhancementsOfSameTitle ==
    {int_data.improvements[i] : i \in {j \in 1..Len(int_data.improvements) :
        /\ int_data.improvements[j].type = "enhanced_section"
        /\ \E k \in 1..Len(Split(ChampionText)) :
               /\ IsLevel2Header(Split(ChampionText)[k])
               /\ Level2Title(Split(ChampionText)[k]) = int_data.improvements[j].title}}

\* the level-2 headers of the text that carry the title
HeadersTitled(text, title) ==
    {k \in 1..Len(Split(text)) :
        IsLevel2Header(Split(text)[k]) /\ Level2Title(Split(text)[k]) = title}

FailsOnDuplication(verification) ==
    /\ verification.raised = "none"
    /\ ~verification.passed
    /\ \E k \in 1..Len(verification.issues) : verification.issues[k].type = "duplication"

\* C28: whenever an enhanced_section improvement is integrated for a champion
\* section whose level-2 header carries exactly the same title text, the
\* integrated document contains two level-2 headers with that title, so
\* verifying it with the duplication check enabled reports at least one
\* duplication issue and passed = false.
C28_EnhancedSectionFailsVerification ==
    (IntegrationReturned /\ EnhancementsOfSameTitle # {})
    => /\ \A improvement \in EnhancementsOfSameTitle :
              Cardinality(HeadersTitled(int_result.result.integrated_content,
                                        improvement.title)) >= 2
       /\ FailsOnDuplication(verify_document(File(int_result.result.integrated_content),
                                             settings))

C28_Witness ==
    /\ IntegrationReturned
    /\ int_data.improvements = <<G_enhanced>>
    /\ ChampionText = <<"#","#"," ","s",NL,"a">>
    /\ settings.check_no_duplication
    /\ EnhancementsOfSameTitle = {G_enhanced}
    /\ Cardinality(HeadersTitled(int_result.result.integrated_content, <<"s">>)) = 2

(***************************************************************************)
(* Properties of the batch stages (SpecBatch)                              *)
(***************************************************************************)
Listed(results, filename) ==
    \E k \in 1..Len(results) : results[k].filename = filename

\* C7: a champion that cannot be read costs only its own family: run_extraction
\* and run_integration, handed a non-empty batch, still return, and what they
\* return holds every family that extract_for_document, respectively
\* integrate_document and the write of its output, succeed for.
C7_ChampionFailureDropsOnlyThatFamily ==
    [][ /\ (pc = "extract" /\ pc' # "extract" /\ DOMAIN tournament_out # {}) =>
               /\ extraction'.raised = "none"
               /\ \A filename \in DOMAIN tournament_out :
                      extract_for_document(tournament_out[filename], repo).returned
                          => Listed(extraction'.results, filename)
        /\ (pc = "integrate" /\ pc' # "integrate" /\ extraction.results # <<>>
                /\ ~faults.create_directory) =>
               /\ integration'.raised = "none"
               /\ \A k \in 1..Len(extraction.results) :
                      LET entry == extraction.results[k]
                          outcome == integrate_document(entry.filename, entry.data, repo,
                                                        settings, CHOOSE d \in Dates : TRUE)
                      IN (outcome.raised = "none" /\ outcome.returned
                              /\ OutputPath(entry.filename) \notin faults.write_document)
                             => Listed(integration'.results, entry.filename)
      ]_vars

\* <output dir>/COMPREHENSIVE_<filename>
ComprehensivePath(filename) ==
    <<"/","o","u","t","p","u","t","/">>
    \o <<"C","O","M","P","R","E","H","E","N","S","I","V","E","_">> \o filename

\* the result's text is what the repository holds at its output path, and the
\* write of that path was not one that fails
WrittenToOutput(result) ==
    /\ ~faults.create_directory
    /\ ComprehensivePath(result.filename) \notin faults.write_document
    /\ ComprehensivePath(result.filename) \in DOMAIN repo
    /\ repo[ComprehensivePath(result.filename)] = File(result.integrated_content)

\* the k-th verification result is the verification of the k-th integrated text
VerifiesIntegratedContent(k) ==
    /\ vresult.results[k].filename = integration.results[k].filename
    /\ vresult.results[k].filepath = ComprehensivePath(integration.results[k].filename)
    /\ vresult.results[k]
           = VerifiedDocument(integration.results[k].filename,
                 ComprehensivePath(integration.results[k].filename),
                 verify_document(File(integration.results[k].integrated_content),
                                 settings))

\* C18: run_integration returns an IntegrationResult only for families whose
\* merged text was successfully written to <output dir>/COMPREHENSIVE_<filename>,
\* and run_verification reads each result back from exactly that path, so the
\* text that is verified equals the result's integrated_content.
C18_VerifiedTextIsIntegratedContent ==
    /\ (pc \in {"done", "verified"} /\ integration.raised = "none")
       => \A k \in 1..Len(integration.results) : WrittenToOutput(integration.results[k])
    /\ pc = "verified"
       => /\ vresult.raised = "none"
          /\ Len(vresult.results) = Len(integration.results)
          /\ \A k \in 1..Len(integration.results) : VerifiesIntegratedContent(k)

\* two families were extracted, the write of the first one's output failed,
\* and the second one's output was verified
C18_Witness ==
    /\ pc = "verified"
    /\ Len(extraction.results) = 2
    /\ Len(integration.results) = 1
    /\ integration.results[1].filename = B_g
    /\ Len(vresult.results) = 1
    /\ vresult.results[1].line_count
           = LineCount(integration.results[1].integrated_content)

(***************************************************************************)
(* Properties of extract_for_document (SpecExtract)                        *)
(***************************************************************************)
ExtractReturned == pc = "done" /\ extraction.raised = "none"

ExtractChampion == Stored(repo, PathOf(G_champion, G_filename))

\* the version of the family's file that a folder holds
VersionFile(folder) == Stored(repo, PathOf(folder, tournament_out.filename))

\* the non-champion folders in the order of all_scores
RECURSIVE OtherFoldersFrom(_)
OtherFoldersFrom(k) ==
    IF k > Len(tournament_out.all_scores) THEN <<>>
    ELSE (IF tournament_out.all_scores[k].folder = tournament_out.champion_folder
          THEN <<>> ELSE <<tournament_out.all_scores[k].folder>>)
         \o OtherFoldersFrom(k + 1)

OtherFolders == OtherFoldersFrom(1)

\* the improvements one readable version holds over the champion
FoundIn(folder) ==
    LET other_content == VersionFile(folder).content
        deltas == compare_citations(ExtractChampion.content, other_content)
    IN find_unique_sections(ExtractChampion.content, other_content, folder)
       \o (IF deltas # <<>>
           THEN <<UniqueImprovement("citation_enhancement", folder, "high",
                                    <<>>, 0, <<>>, <<>>, 0, <<>>, deltas)>>
           ELSE <<>>)

RECURSIVE FoundInReadable(_)
FoundInReadable(folders) ==
    IF folders = <<>> THEN <<>>
    ELSE (IF VersionFile(Head(folders)).kind = "text" THEN FoundIn(Head(folders))
          ELSE <<>>)
         \o FoundInReadable(Tail(folders))

CitationPattern(field) ==
    IF field = "ina"
    THEN Lits(<<"I","N","A">>) \o <<SpaceStar, Lit(SECT), SpaceStar, DigitPlus>>
    ELSE CountPattern(field)

CitationCount(content, field) == Len(FindAll(CitationPattern(field), content, 1))

\* the categories of which the other text holds more citations
MoreCited(champion_content, other_content) ==
    {CitationFields[i] : i \in {j \in 1..Len(CitationFields) :
        CitationCount(other_content, CitationFields[j])
            > CitationCount(champion_content, CitationFields[j])}}

\* deltas are those categories, each with its difference
ReportsMoreCited(deltas, champion_content, other_content) ==
    /\ {deltas[i].category : i \in 1..Len(deltas)}
           = MoreCited(champion_content, other_content)
    /\ \A i, j \in 1..Len(deltas) : deltas[i].category = deltas[j].category => i = j
    /\ \A i \in 1..Len(deltas) :
           /\ deltas[i].champion = CitationCount(champion_content, deltas[i].category)
           /\ deltas[i].other = CitationCount(other_content, deltas[i].category)
           /\ deltas[i].difference = deltas[i].other - deltas[i].champion
           /\ deltas[i].difference > 0

\* the citation_enhancement improvements returned for a folder
CitationEnhancements(folder) ==
    {i \in 1..Len(extraction.data.improvements) :
        /\ extraction.data.improvements[i].type = "citation_enhancement"
        /\ extraction.data.improvements[i].source_folder = folder}

\* C17: for each non-champion version, compare_citations reports exactly the
\* citation categories whose count in the non-champion text strictly exceeds
\* the champion's count, each with difference = other - champion > 0;
\* extract_for_document emits exactly one citation_enhancement improvement for
\* that version when this set is non-empty and none when it is empty.
C17_CitationDeltasAreTheMoreCitedCategories ==
    (pc = "done" /\ ExtractChampion.kind = "text")
    => \A k \in 1..Len(OtherFolders) :
           VersionFile(OtherFolders[k]).kind = "text"
           => /\ ReportsMoreCited(compare_citations(ExtractChampion.content,
                                                    VersionFile(OtherFolders[k]).content),
                                  ExtractChampion.content,
                                  VersionFile(OtherFolders[k]).content)
              /\ Cardinality(CitationEnhancements(OtherFolders[k]))
                     = IF MoreCited(ExtractChampion.content,
                                    VersionFile(OtherFolders[k]).content) = {}
                       THEN 0 ELSE 1

(***************************************************************************)
(* Properties of the entry points (SpecEntry)                              *)
(***************************************************************************)
\* the outcome of the entry point whose frame is in pc
EntryOutcome ==
    CASE pc.entry = "run_tournament" -> BatchOutcome(tournament.raised, tournament.scores)
      [] pc.entry = "run_tournaments" -> tournament_out
      [] pc.entry = "run_extraction" -> extraction
      [] pc.entry = "run_integration" -> integration
      [] pc.entry = "run_verification" -> vresult

EmptyArgument == pc.entry # "none" /\ DOMAIN pc.argument = {}

\* the entry point answers the empty argument alike for every repository
RaisesAndKeeps(out, repository) ==
    out.raised = "ValueError" /\ out.repository = repository

EmptyRaisesWhateverIsStored ==
    \A repository \in EntryRepositories :
        /\ run_extraction(<<>>, repository).raised = "ValueError"
        /\ RaisesAndKeeps(run_integration(<<>>, repository, settings, EntryToday, faults),
                          repository)
        /\ run_verification(<<>>, repository, settings).raised = "ValueError"

\* C14: each batch entry point called with an empty input (run_tournament with
\* no versions, run_tournaments({}), run_extraction({}), run_integration({}),
\* run_verification([])) fails with a ValueError: it returns nothing, leaves
\* the repository as it was on entry, and does so whatever the repository holds
C14_EmptyInputRaisesValueError ==
    EmptyArgument
    => /\ EntryOutcome.raised = "ValueError"
       /\ EntryOutcome.results = <<>>
       /\ repo = pc.repository
       /\ EmptyRaisesWhateverIsStored

C14_Witness ==
    /\ pc.entry = "run_integration"
    /\ pc.argument = <<>>
    /\ integration.raised = "ValueError"
    /\ repo[PathOf(B_champion, B_f)].kind = "text"

\* run_tournament was called with versions
VersionsEvaluated == pc.entry = "run_tournament" /\ pc.argument # <<>>

\* modification times of the versions
ArgumentTimes == {pc.argument[k].modified_time : k \in 1..Len(pc.argument)}
Oldest == MinOf(ArgumentTimes)
Newest == MaxOf(ArgumentTimes)

\* score (in hundredths) is the quotient 1000 * num / den rounded to the
\* nearest hundredth
NearestHundredth(score, num, den) ==
    /\ 2 * (score * den - 1000 * num) <= den
    /\ 2 * (1000 * num - score * den) <= den

\* C19: score_recency gives every version exactly 5.0 when all versions of the
\* cohort share one modification time; otherwise it gives
\* 10 * (mtime - oldest) / (newest - oldest) (evaluate_version keeps two
\* decimals of it), so the newest version scores 10 and the oldest 0.
C19_RecencyIsLinearOrFive ==
    VersionsEvaluated =>
        /\ tournament.raised = "none"
        /\ \A k \in 1..Len(pc.argument) :
               LET recency == tournament.scores[k].breakdown.recency IN
               IF Newest = Oldest THEN recency = 500
               ELSE /\ NearestHundredth(recency, pc.argument[k].modified_time - Oldest,
                                        Newest - Oldest)
                    /\ pc.argument[k].modified_time = Newest => recency = 1000
                    /\ pc.argument[k].modified_time = Oldest => recency = 0

\* three versions of distinct times: the oldest, one in between, the newest
C19_Witness ==
    /\ VersionsEvaluated
    /\ tournament.raised = "none"
    /\ Len(pc.argument) = 3
    /\ tournament.scores[1].breakdown.recency = 0
    /\ tournament.scores[2].breakdown.recency = 333
    /\ tournament.scores[3].breakdown.recency = 1000

\* all versions share one modification time
C19_WitnessSameTime ==
    /\ VersionsEvaluated
    /\ tournament.raised = "none"
    /\ Len(pc.argument) >= 2
    /\ Newest = Oldest
    /\ \A k \in 1..Len(pc.argument) : tournament.scores[k].breakdown.recency = 500

\* run_tournaments returned its results
FamiliesEvaluated == pc.entry = "run_tournaments" /\ tournament_out.raised = "none"

\* the positions of runners_up that name a folder
Places(result, folder) ==
    {i \in 1..Len(result.runners_up) : result.runners_up[i].folder = folder}

\* C20: in every TournamentResult, runners_up contains each non-champion
\* folder of the family exactly once with its total, ordered by total
\* descending; the champion folder is absent, the list has version_count - 1
\* entries, and no runner-up total exceeds champion_score.
C20_RunnersUpByTotalDescending ==
    FamiliesEvaluated =>
        \A r \in 1..Len(tournament_out.results) :
            LET result == tournament_out.results[r]
                versions == pc.argument[result.filename]
            IN /\ result.version_count = Len(versions)
               /\ Len(result.runners_up) = result.version_count - 1
               /\ Places(result, result.champion_folder) = {}
               /\ \A k \in 1..Len(versions) :
                      versions[k].folder # result.champion_folder
                      => /\ Cardinality(Places(result, versions[k].folder)) = 1
                         /\ \A i \in Places(result, versions[k].folder) :
                                result.runners_up[i].total
                                    = Total(evaluate_version(versions, k))
               /\ \A i, j \in 1..Len(result.runners_up) :
                      i < j => result.runners_up[i].total >= result.runners_up[j].total
               /\ \A i \in 1..Len(result.runners_up) :
                      result.runners_up[i].total <= result.champion_score

\* a family of three won by its last folder, whose runners-up are listed
\* against the order of the folders
C20_Witness ==
    /\ FamiliesEvaluated
    /\ Len(tournament_out.results) = 1
    /\ tournament_out.results[1].version_count = 3
    /\ tournament_out.results[1].champion_folder = TournamentFolders[3]
    /\ tournament_out.results[1].runners_up[1].folder = TournamentFolders[2]
    /\ tournament_out.results[1].runners_up[2].folder = TournamentFolders[1]
    /\ tournament_out.results[1].runners_up[1].total
           > tournament_out.results[1].runners_up[2].total

(***************************************************************************)
(* Properties of run_tournament (SpecTournament)                           *)
(***************************************************************************)
TournamentRan == pc = "done" /\ cohort # <<>>

\* C2: run_tournament on a non-empty version map returns; afterwards every key
\* of the map has its ScoreBreakdown in scores, and the champion is a key of
\* the map whose total is at least the total of every key.
C2_ChampionIsKeyOfGreatestTotal ==
    TournamentRan =>
        /\ tournament.raised = "none"
        /\ Len(tournament.scores) = Len(cohort)
        /\ \A k \in 1..Len(cohort) :
               /\ tournament.scores[k].folder = cohort[k].folder
               /\ ValidBreakdown(tournament.scores[k].breakdown)
        /\ \E k \in 1..Len(cohort) :
               /\ cohort[k].folder = tournament.champion
               /\ \A j \in 1..Len(cohort) :
                      Total(tournament.scores[j].breakdown)
                          <= Total(tournament.scores[k].breakdown)

\* the champion is not the first key and beats it outright
C2_Witness ==
    /\ TournamentRan
    /\ tournament.raised = "none"
    /\ Len(cohort) >= 2
    /\ tournament.champion = cohort[2].folder
    /\ Total(tournament.scores[1].breakdown) < Total(tournament.scores[2].breakdown)

\* the five fields of a ScoreBreakdown
ScoreFields == {"completeness", "recency", "structure", "citations", "arguments"}

\* C15: for every version of every non-empty cohort, each of the five
\* sub-scores computed by evaluate_version lies in [0,10], and total equals
\* their sum and lies in [0,50], so building the ScoreBreakdown never fails its
\* range validation (run_tournament does not raise).
C15_ScoresWithinRange ==
    TournamentRan =>
        /\ tournament.raised = "none"
        /\ \A k \in 1..Len(cohort) :
               LET breakdown == tournament.scores[k].breakdown IN
               /\ breakdown = evaluate_version(cohort, k)
               /\ DOMAIN breakdown = ScoreFields
               /\ \A f \in ScoreFields :
                      ScoreFloor <= breakdown[f] /\ breakdown[f] <= ScoreCeiling
               /\ Total(breakdown) = breakdown.completeness + breakdown.recency
                                     + breakdown.structure + breakdown.citations
                                     + breakdown.arguments
               /\ 5 * ScoreFloor <= Total(breakdown)
               /\ Total(breakdown) <= 5 * ScoreCeiling

\* a cohort of two in which sub-scores reach both ends of the range
C15_Witness ==
    /\ TournamentRan
    /\ tournament.raised = "none"
    /\ Len(cohort) = 2
    /\ cohort[1].line_count < cohort[2].line_count
    /\ tournament.scores[2].breakdown.recency = ScoreCeiling
    /\ tournament.scores[2].breakdown.citations = ScoreCeiling
    /\ tournament.scores[1].breakdown.recency = ScoreFloor
    /\ tournament.scores[1].breakdown.structure = ScoreFloor


(***************************************************************************)
(* Properties of the command full (SpecFull)                               *)
(***************************************************************************)
FullEnded == pc \in {"exit_0", "exit_1"}

\* a phase has run when its outcome is no longer pending
HasRun(outcome) == outcome.raised # "pending"

Returned(outcome) == outcome.raised = "none" /\ outcome.results # <<>>

\* the phases ran in the order tournament, extraction, integration,
\* verification, each after the one before had returned
PhasesInOrder ==
    /\ HasRun(extraction) => tournament_out.raised = "none"
    /\ HasRun(integration) => extraction.raised = "none"
    /\ HasRun(vresult) => integration.raised = "none"

\* C26: in the command full the four stages run strictly in the order
\* tournament, extraction, integration, verification, each starting only
\* after the previous one returned; whenever the first three stages return
\* non-empty results, the verification stage is executed on the integration
\* results and the command ends successfully.
C26_FullVerifiesAndSucceeds ==
    /\ PhasesInOrder
    /\ (FullEnded /\ Returned(tournament_out) /\ Returned(extraction)
        /\ Returned(integration))
       => /\ pc = "exit_0"
          /\ vresult = run_verification(integration.results, repo, settings)

C26_ThreePhasesReturned ==
    FullEnded /\ Returned(tournament_out) /\ Returned(extraction) /\ Returned(integration)


\* C29: no pipeline stage modifies a source document: after any run the
\* content stored at every source path equals its content before the run.
C29_SourcesUnchanged ==
    \A v \in FoundVersions(cohort) : Stored(repo, v.path) = File(v.content)

\* the only paths written are the output paths of the families
OnlyOutputsWritten ==
    \A path \in DOMAIN repo :
        \/ \E v \in FoundVersions(cohort) : v.path = path /\ repo[path] = File(v.content)
        \/ \E filename \in DOMAIN cohort : path = OutputPath(filename)


\* the path at which the later stages look for the version of a folder
PathExamined(result, folder) ==
    Replace(result.champion_path, result.champion_folder, folder)

\* C30: for every non-champion folder F of a family, the document that
\* extraction compares with the champion, and that citation integration
\* reads, is F's own version of the family's file: the path examined equals
\* the champion path with only the folder component changed from the champion
\* folder to F, whatever the folder names and the file name.
C30_ExaminesOwnVersion ==
    tournament_out.raised = "none"
    => \A i \in 1..Len(tournament_out.results) :
           \A k \in 1..Len(tournament_out.results[i].all_scores) :
               LET result == tournament_out.results[i]
                   folder == result.all_scores[k].folder
               IN folder # result.champion_folder
                  => PathExamined(result, folder) = PathOf(folder, result.filename)

====
